---- MODULE Spec2Model ----
(***************************************************************************)
(* Clinical-data retrieval and vital-sign analytics of volview-insight     *)
(* (ChartView component): paginated FHIR fetch with next-link rewriting,   *)
(* vital-sign classification, statistics, chart series, and the refresh    *)
(* that the current-patient watcher starts.                                *)
(***************************************************************************)
EXTENDS Integers, Sequences, FiniteSets, TLC

VARIABLES
  baseUrl,              \* new URL(localServerUrl.value): the configured origin
  linkOrigin,           \* origin the FHIR server writes into its "next" links
  currentPatient,       \* local-fhir-store selectedPatient
  observations,         \* ref observations
  conditions,           \* ref conditions
  vitals,               \* ref vitals
  vitalStats,           \* ref vitalStats
  timeSeriesChartData,  \* ref timeSeriesChartData
  chartOptions,         \* chartOptions.scales.y.title.text
  selectedVital,        \* ref selectedVital
  tasks,                \* the invocations of fetchChartDataForPatient
  obsOrder,             \* history: task indices in the order they assigned observations
  completed,            \* history: task indices in the order they finished
  input,                \* pure-function harness: the argument list
  output,               \* pure-function harness: the classifier's outcome
  ran,                  \* pure-function harness: which function has been applied
  selectedPatient,      \* local-fhir-store / patient-store selectedPatient
  primarySelection,     \* dataset store: the primary selection
  patientInfo,          \* dicom-meta-store patientInfo, in Object.values order
  dicomMessage,         \* dicom-web-store message
  isFetching,           \* PatientDetails: ref isFetching
  metaRequests,         \* PatientDetails: fetchPatientMeta calls in flight
  chatHistories,        \* multi-model chat: ref chatHistories
  selectedModel,        \* backend-model-store selectedModel
  isTyping,             \* multi-model chat: ref isTyping
  rpc,                  \* multi-model chat: the client.call in flight
  messages,             \* ChatModule: ref messages
  moduleTyping,         \* ChatModule: ref isTyping
  moduleRpc,            \* ChatModule: the client.call in flight
  store,                \* which analysis store the analysis variables are
  analysisIdList,       \* analysis store: analysisIdList
  analysisInput,        \* analysis store: analysisInput
  analysisOutput,       \* analysis store: analysisOutput
  analysisDone,         \* analysis store: analysisDone
  idsPassed             \* history: the ids given to addAnalysisId or setAnalysisInput

chartVars == <<baseUrl, linkOrigin, currentPatient, observations, conditions, vitals,
               vitalStats, timeSeriesChartData, chartOptions, selectedVital, tasks,
               obsOrder, completed, input, output, ran>>

patientVars == <<selectedPatient, primarySelection>>

panelVars == <<patientInfo, dicomMessage>>

detailVars == <<isFetching, metaRequests>>

chatVars == <<chatHistories, selectedModel, isTyping, rpc>>

moduleVars == <<messages, moduleTyping, moduleRpc>>

storeVars == <<store, analysisIdList, analysisInput, analysisOutput, analysisDone,
               idsPassed>>

\* The state of the components other than ChartView.
appVars == <<patientVars, panelVars, detailVars, chatVars, moduleVars, storeVars>>

vars == <<chartVars, appVars>>

displayVars == <<observations, conditions, vitals, vitalStats,
                 timeSeriesChartData, chartOptions>>

pureVars == <<input, output, ran>>

----------------------------------------------------------------------------
(* Bounds *)

MaxRefresh == 2     \* refreshes started in one behaviour
MaxLen == 3         \* length of the classifier's argument list
MaxCount == 4       \* request/response counters stop counting here
MaxSortLen == 4     \* length of the lists whose sort order is examined
MaxPending == 3      \* requests or calls of one kind in flight at once
Precision == 7      \* bits of significand a number keeps

----------------------------------------------------------------------------
(* URLs.  A URL string is the tuple <<scheme, host, port, path, query>>;    *)
(* port 0 is "no port written".  A parsed URL is a record.                  *)

NoPort == 1 - 1

DefaultPort(scheme) == IF scheme = "http" THEN 80 ELSE 443

\* new URL(str): a port equal to the scheme's default is dropped.
ParseURL(str) ==
  [scheme |-> str[1], host |-> str[2],
   port |-> IF str[3] = DefaultPort(str[1]) THEN NoPort ELSE str[3],
   path |-> str[4], query |-> str[5]]

\* url.toString()
SerializeURL(u) == <<u.scheme, u.host, u.port, u.path, u.query>>

\* url.protocol = p (both schemes special): the scheme changes; a port that
\* is the new scheme's default becomes null.
SetProtocol(u, p) ==
  [u EXCEPT !.scheme = p,
            !.port = IF u.port = DefaultPort(p) THEN NoPort ELSE u.port]

\* url.host getter: "hostname" or "hostname:port".
HostOf(u) == [host |-> u.host, port |-> u.port]

\* url.host = h: the hostname changes; the port changes only when h carries
\* one (the host setter stops after the hostname when no ":port" follows).
SetHost(u, h) ==
  [u EXCEPT !.host = h.host,
            !.port = IF h.port = NoPort THEN u.port
                     ELSE IF h.port = DefaultPort(u.scheme) THEN NoPort
                     ELSE h.port]

\* Lines 371-374: rawNextUrl = new URL(nextLink.url); protocol and host are
\* assigned from baseUrl; nextUrl = rawNextUrl.toString().
RewriteNextUrl(linkUrl, base) ==
  SerializeURL(SetHost(SetProtocol(ParseURL(linkUrl), base.scheme), HostOf(base)))

EffectivePort(u) == IF u.port = NoPort THEN DefaultPort(u.scheme) ELSE u.port

----------------------------------------------------------------------------
(* Clinical resources.  code is obs.code.coding[0].code ("" when absent);   *)
(* a value is [kind, n] with kind "num", "str" (present, not a number) or   *)
(* "none"; a timestamp is [kind, ms] with kind "ms" (parseable), "bad"      *)
(* (present, not parseable) or "absent".                                    *)

Num(n) == [kind |-> "num", n |-> n]
NoValue == [kind |-> "none", n |-> 0]
NotANumber == [kind |-> "str", n |-> 0]
At(ms) == [kind |-> "ms", ms |-> ms]
Absent == [kind |-> "absent", ms |-> 0]
Unparseable == [kind |-> "bad", ms |-> 0]

Res(id, code, value, unit, lu) ==
  [id |-> id, code |-> code, value |-> value, unit |-> unit,
   lastUpdated |-> lu, effectiveDateTime |-> Absent, issued |-> Absent]

\* Lines 22-31.
VITAL_SIGN_CODES ==
  [c \in {"220045", "220210", "223761", "220179", "220180", "220052", "220277"} |->
     CASE c = "220045" -> "heart_rate"
       [] c = "220210" -> "respiratory_rate"
       [] c = "223761" -> "temperature"
       [] c = "220179" -> "systolic_bp"
       [] c = "220180" -> "diastolic_bp"
       [] c = "220052" -> "mean_arterial_pressure"
       [] c = "220277" -> "spo2"]

\* Lines 33-41.
VITAL_SIGN_LABELS ==
  [k \in {"heart_rate", "respiratory_rate", "temperature", "systolic_bp",
          "diastolic_bp", "mean_arterial_pressure", "spo2"} |->
     CASE k = "heart_rate" -> "Heart Rate"
       [] k = "respiratory_rate" -> "Resp. Rate"
       [] k = "temperature" -> "Temp."
       [] k = "systolic_bp" -> "Sys. BP"
       [] k = "diastolic_bp" -> "Dia. BP"
       [] k = "mean_arterial_pressure" -> "Avg Arterial Press."
       [] k = "spo2" -> "SpO2"]

\* Lines 43-51.
VITALS_COLOR_MAP ==
  [k \in DOMAIN VITAL_SIGN_LABELS |->
     CASE k = "heart_rate" -> "#E57373"
       [] k = "respiratory_rate" -> "#FFB74D"
       [] k = "temperature" -> "#64B5F6"
       [] k = "systolic_bp" -> "#81C784"
       [] k = "diastolic_bp" -> "#BA68C8"
       [] k = "mean_arterial_pressure" -> "#B0B0B0"
       [] k = "spo2" -> "#4DB6AC"]

VitalKeys == DOMAIN VITAL_SIGN_LABELS

\* Lines 215-223 (and the initial value of ref vitals, lines 78-86).
EmptyVitals == [k \in VitalKeys |-> <<>>]

\* VITAL_SIGN_CODES is an object literal, so VITAL_SIGN_CODES[code] also finds
\* the properties every object inherits from Object.prototype.
ObjectPrototypeKeys ==
  {"constructor", "toString", "valueOf", "hasOwnProperty", "isPrototypeOf",
   "propertyIsEnumerable", "toLocaleString", "__proto__"}

\* Line 230: the outcome of VITAL_SIGN_CODES[code]: an own entry (a category
\* name), an inherited property (a truthy value that names no group), or
\* undefined.
LookupCode(code) ==
  IF code \in DOMAIN VITAL_SIGN_CODES
    THEN [kind |-> "own", key |-> VITAL_SIGN_CODES[code]]
  ELSE IF code \in ObjectPrototypeKeys
    THEN [kind |-> "inherited", key |-> ""]
  ELSE [kind |-> "undefined", key |-> ""]

\* Lines 239-240: new Date(meta.lastUpdated || 0).getTime(); NaN for a string
\* that does not parse.
SortKey(r) ==
  CASE r.lastUpdated.kind = "ms" -> [nan |-> FALSE, t |-> r.lastUpdated.ms]
    [] r.lastUpdated.kind = "absent" -> [nan |-> FALSE, t |-> 0]
    [] OTHER -> [nan |-> TRUE, t |-> 0]

\* Line 241: dateB - dateA; sort treats a NaN result as 0.
Compare(a, b) ==
  IF SortKey(a).nan \/ SortKey(b).nan THEN 0 ELSE SortKey(b).t - SortKey(a).t

\* Lines 237-243: Array.prototype.sort is stable, so element i ends up after
\* every element that compares smaller and after every earlier element that
\* compares equal.  (Keys are comparable: lastUpdated parses or is absent.)
Before(list, j, i) ==
  \/ Compare(list[j], list[i]) < 0
  \/ Compare(list[j], list[i]) = 0 /\ j < i

Rank(list, i) == Cardinality({j \in 1..Len(list) : Before(list, j, i)}) + 1

SortDesc(list) ==
  [p \in 1..Len(list) |-> list[CHOOSE i \in 1..Len(list) : Rank(list, i) = p]]

\* Lines 225-234: the resources pushed to vitalSigns[key], in input order.
RECURSIVE GroupOf(_, _)
GroupOf(list, key) ==
  IF list = <<>> THEN <<>>
  ELSE (IF Head(list).code # "" /\ LookupCode(Head(list).code).kind = "own"
           /\ LookupCode(Head(list).code).key = key
          THEN <<Head(list)>> ELSE <<>>) \o GroupOf(Tail(list), key)

\* Lines 230-232: vitalSigns[vitalKey] is undefined for a truthy vitalKey
\* that names no group, and .push on it raises a TypeError.
PushThrows(list) ==
  \E n \in 1..Len(list) :
    list[n].code # "" /\ LookupCode(list[n].code).kind = "inherited"

\* Lines 214-246: the outcome is [threw, groups]; groups is the returned
\* record when threw is FALSE, and a TypeError left the function otherwise.
extractAndSortVitalSignsObservations(list) ==
  IF PushThrows(list) THEN [threw |-> TRUE, groups |-> EmptyVitals]
  ELSE [threw |-> FALSE, groups |-> [k \in VitalKeys |-> SortDesc(GroupOf(list, k))]]

\* Lines 238-242 with a lastUpdated that does not parse: the comparator gives
\* NaN, which sort reads as 0, so that resource compares equal to every other
\* one.  The comparator is then consistent only if all resources of the list
\* compare equal; otherwise the order sort leaves is implementation-defined.
ConsistentComparator(list) ==
  \/ \A n \in 1..Len(list) : ~SortKey(list[n]).nan
  \/ \A m, n \in 1..Len(list) : Compare(list[m], list[n]) = 0

PermutationsOf(list) ==
  {[p \in 1..Len(list) |-> list[f[p]]] :
     f \in {g \in [1..Len(list) -> 1..Len(list)] :
              \A a, b \in 1..Len(list) : a # b => g[a] # g[b]}}

\* Lines 237-243: what vitalSigns[key].sort(...) may leave in the list.
SortOutcomes(list) ==
  IF ConsistentComparator(list) THEN {SortDesc(list)} ELSE PermutationsOf(list)

\* Lines 237-243 over the keys in keys: every choice of one outcome per key.
RECURSIVE GroupOutcomes(_, _)
GroupOutcomes(list, keys) ==
  IF keys = {} THEN {<<>>}
  ELSE LET k == CHOOSE x \in keys : TRUE IN
       {(k :> g) @@ rest : g \in SortOutcomes(GroupOf(list, k)),
                           rest \in GroupOutcomes(list, keys \ {k})}

\* Lines 214-246 for any list: the outcomes the call may have.  It is the one
\* outcome extractAndSortVitalSignsObservations(list) when every comparator
\* is consistent.
ClassifyOutcomes(list) ==
  IF PushThrows(list) THEN {[threw |-> TRUE, groups |-> EmptyVitals]}
  ELSE {[threw |-> FALSE, groups |-> g] : g \in GroupOutcomes(list, VitalKeys)}

----------------------------------------------------------------------------
(* Numbers.  A JavaScript number is a binary floating-point value; every    *)
(* arithmetic operation gives the exact result rounded to the nearest       *)
(* representable value, ties to the even significand.  A number is kept as  *)
(* the fraction num/den in lowest terms, and the significand has Precision  *)
(* bits (53 in the code's doubles); the exponent range is not limited.      *)

Abs(x) == IF x < 0 THEN -x ELSE x

RECURSIVE Pow2(_)
Pow2(n) == IF n = 0 THEN 1 ELSE 2 * Pow2(n - 1)

Zero == [num |-> 1 - 1, den |-> 1]

\* a/b >= 2^k, for a >= 0 and b > 0.
AtLeastPow2(a, b, k) ==
  IF k >= 0 THEN a \div Pow2(k) >= b ELSE a * Pow2(-k) >= b

\* floor(log2(a/b)), for a > 0 and b > 0.
RECURSIVE Log2Up(_, _, _)
Log2Up(a, b, k) == IF AtLeastPow2(a, b, k + 1) THEN Log2Up(a, b, k + 1) ELSE k

RECURSIVE Log2Down(_, _, _)
Log2Down(a, b, k) == IF AtLeastPow2(a, b, k - 1) THEN k - 1 ELSE Log2Down(a, b, k - 1)

Log2Floor(a, b) == IF a >= b THEN Log2Up(a, b, 0) ELSE Log2Down(a, b, 0)

\* n/d rounded to the nearest integer, ties to even.
RoundHalfEven(n, d) ==
  LET q == n \div d
      r == n % d
  IN IF 2 * r < d THEN q
     ELSE IF 2 * r > d THEN q + 1
     ELSE IF q % 2 = 0 THEN q ELSE q + 1

\* m / 2^k in lowest terms, for m # 0.
RECURSIVE Halved(_, _)
Halved(m, k) ==
  IF k = 0 \/ m % 2 # 0 THEN [num |-> m, den |-> Pow2(k)]
  ELSE Halved(m \div 2, k - 1)

\* m * 2^e in lowest terms, for m # 0.
Scaled(m, e) == IF e >= 0 THEN [num |-> m * Pow2(e), den |-> 1] ELSE Halved(m, -e)

\* a/b rounded to a significand at exponent e.
RoundAt(a, b, e) ==
  CHOOSE r \in
    {Scaled(IF a < 0 THEN -m ELSE m, e) :
       m \in {IF e >= 0 THEN RoundHalfEven(Abs(a), b * Pow2(e))
              ELSE RoundHalfEven(Abs(a) * Pow2(-e), b)}} : TRUE

\* The representable number nearest to the fraction a/b, b > 0.
RoundTo(a, b) ==
  IF a = 0 THEN Zero
  ELSE CHOOSE r \in
         {RoundAt(a, b, e) : e \in {Log2Floor(Abs(a), b) - (Precision - 1)}} : TRUE

Round(a, b) == CHOOSE r \in {RoundTo(n, d) : n \in {a}, d \in {b}} : TRUE

\* x + y, x - y, x * y, x / n and Math.sqrt(x) of numbers.
FAdd(x, y) == Round(x.num * y.den + y.num * x.den, x.den * y.den)
FSub(x, y) == Round(x.num * y.den - y.num * x.den, x.den * y.den)
FMul(x, y) == Round(x.num * y.num, x.den * y.den)
FDivInt(x, n) == Round(x.num, x.den * n)

\* Whether sqrt(a/b) is at least (c - 1/2) * 2^e, that is whether it rounds
\* to the significand c or to a larger one: ((2c-1) * 2^e)^2 <= 4a/b.
RootAtLeast(a, b, e, c) ==
  IF e >= 0 THEN (2 * c - 1) * (2 * c - 1) * Pow2(2 * e) * b <= 4 * a
  ELSE (2 * c - 1) * (2 * c - 1) * b <= 4 * a * Pow2(-2 * e)

\* The largest significand c in lo..hi with RootAtLeast; lo has it.
RECURSIVE LargestRoot(_, _, _, _, _)
LargestRoot(a, b, e, lo, hi) ==
  IF lo = hi THEN lo
  ELSE CHOOSE r \in
         {IF RootAtLeast(a, b, e, mid) THEN LargestRoot(a, b, e, mid, hi)
          ELSE LargestRoot(a, b, e, lo, mid - 1) :
            mid \in {(lo + hi + 1) \div 2}} : TRUE

\* Math.sqrt(a/b) for a > 0 at exponent e: the significand nearest to the root.
SqrtAt(a, b, e) ==
  CHOOSE r \in
    {Scaled(m, e) :
       m \in {LargestRoot(a, b, e, Pow2(Precision - 1), Pow2(Precision))}} : TRUE

SqrtOf(a, b) ==
  CHOOSE r \in
    {SqrtAt(a, b, e) : e \in {(Log2Floor(a, b) \div 2) - (Precision - 1)}} : TRUE

FSqrt(q) ==
  CHOOSE r \in {IF x.num = 0 THEN x ELSE SqrtOf(x.num, x.den) : x \in {q}} : TRUE

\* The number a JSON integer literal parses to.
ToNumber(n) == Round(n, 1)

----------------------------------------------------------------------------
(* Statistics (lines 178-202).                                               *)

\* A mutation of the filter: a value that is not a number counts as 0.
RECURSIVE NumericValuesLoose(_)
NumericValuesLoose(list) ==
  IF list = <<>> THEN <<>>
  ELSE LET rest == NumericValuesLoose(Tail(list)) IN
       IF Head(list).value.kind = "num" THEN <<ToNumber(Head(list).value.n)>> \o rest
       ELSE IF Head(list).value.kind = "str" THEN <<Zero>> \o rest
       ELSE rest

\* A mutation of the filter: it stops at the first value that is not a number.
RECURSIVE NumericValuesPrefix(_)
NumericValuesPrefix(list) ==
  IF list = <<>> \/ Head(list).value.kind # "num" THEN <<>>
  ELSE <<ToNumber(Head(list).value.n)>> \o NumericValuesPrefix(Tail(list))

\* Lines 184-186: the values that are numbers.
RECURSIVE NumericValues(_)
NumericValues(list) ==
  IF list = <<>> THEN <<>>
  ELSE LET rest == NumericValues(Tail(list)) IN
       IF Head(list).value.kind = "num"
         THEN <<ToNumber(Head(list).value.n)>> \o rest ELSE rest

\* Line 193: values.reduce((sum, val) => sum + val, 0), from the left.
RECURSIVE SumFrom(_, _)
SumFrom(acc, values) ==
  IF values = <<>> THEN acc
  ELSE CHOOSE r \in {SumFrom(s, Tail(values)) : s \in {FAdd(acc, Head(values))}} : TRUE

\* Line 195: values.reduce((sum, val) => sum + Math.pow(val - mean, 2), 0).
RECURSIVE SumSquaredDeviations(_, _, _)
SumSquaredDeviations(acc, values, mean) ==
  IF values = <<>> THEN acc
  ELSE CHOOSE r \in
         {SumSquaredDeviations(s, Tail(values), mean) :
            s \in {FAdd(acc, sq) :
                     sq \in {FMul(d, d) : d \in {FSub(Head(values), mean)}}}} : TRUE

NullStat == [null |-> TRUE, mean |-> Zero, stddev |-> Zero]

\* A mutation of the divisor: the variance divides by values.length.
StddevForPopulation(values, mean) ==
  FSqrt(FDivInt(SumSquaredDeviations(Zero, values, mean), Len(values)))

\* Lines 194-196: the variance divides by values.length - 1.
StddevFor(values, mean) ==
  FSqrt(FDivInt(SumSquaredDeviations(Zero, values, mean), Len(values) - 1))

\* Lines 193-198 for the numbers values, at least two of them.
MeanAndStddev(values) ==
  CHOOSE r \in
    {[null |-> FALSE, mean |-> mean, stddev |-> StddevFor(values, mean)] :
       mean \in {FDivInt(SumFrom(Zero, values), Len(values))}} : TRUE

\* Lines 184-198 for one category.
StatOf(list) ==
  CHOOSE r \in {IF Len(values) < 2 THEN NullStat ELSE MeanAndStddev(values) :
                  values \in {NumericValues(list)}} : TRUE

\* Lines 178-202.
computeVitalStats(vitalsData) == [k \in DOMAIN vitalsData |-> StatOf(vitalsData[k])]

\* Lines 87-95.
InitialVitalStats == [k \in VitalKeys |-> NullStat]

----------------------------------------------------------------------------
(* Chart series (lines 261-291) and updateChartData (lines 296-340).         *)

\* Lines 268-271: a || b || c takes the first string that is present.
DateStr(r) ==
  IF r.lastUpdated.kind # "absent" THEN r.lastUpdated
  ELSE IF r.effectiveDateTime.kind # "absent" THEN r.effectiveDateTime
  ELSE r.issued

\* A mutation of the series: the points are ordered by their timestamp.
RECURSIVE InsertByTime(_, _)
InsertByTime(pt, pts) ==
  IF pts = <<>> THEN <<pt>>
  ELSE IF pt.x < Head(pts).x THEN <<pt>> \o pts
  ELSE <<Head(pts)>> \o InsertByTime(pt, Tail(pts))

RECURSIVE PointsByTime(_)
PointsByTime(list) ==
  IF list = <<>> THEN <<>>
  ELSE LET r == Head(list)
           d == DateStr(r)
           rest == PointsByTime(Tail(list))
       IN IF r.value.kind # "none" /\ d.kind = "ms"
            THEN InsertByTime([x |-> d.ms, y |-> r.value], rest)
            ELSE rest

\* Lines 266-276.
RECURSIVE Points(_)
Points(list) ==
  IF list = <<>> THEN <<>>
  ELSE LET r == Head(list)
           d == DateStr(r)
           rest == Points(Tail(list))
       IN IF r.value.kind # "none" /\ d.kind = "ms"
            THEN <<[x |-> d.ms, y |-> r.value]>> \o rest
            ELSE rest

computeTimeSeriesChartData(vitalData, color, label) ==
  [datasets |-> <<[label |-> label, data |-> Points(vitalData),
                   borderColor |-> color, backgroundColor |-> color]>>]

EmptyChart == [datasets |-> <<>>]

\* A mutation of lines 322-323: an empty group also gets a dataset.
ChartForAlwaysDataset(g, k) ==
  computeTimeSeriesChartData(g, VITALS_COLOR_MAP[k], VITAL_SIGN_LABELS[k])

\* Lines 296-340: the chart and the y-axis title for vital group g of key k.
ChartFor(g, k) ==
  IF Len(g) > 0 THEN computeTimeSeriesChartData(g, VITALS_COLOR_MAP[k], VITAL_SIGN_LABELS[k])
  ELSE EmptyChart

UnitFor(g) == IF Len(g) > 0 /\ g[1].unit # "" THEN g[1].unit ELSE "Value"

----------------------------------------------------------------------------
(* Patients and the FHIR server.                                            *)

NullPatient == [null |-> TRUE, id |-> "", resource_id |-> ""]
PA == [null |-> FALSE, id |-> "A", resource_id |-> "a"]
PB == [null |-> FALSE, id |-> "B", resource_id |-> "b"]
PNoRid == [null |-> FALSE, id |-> "C", resource_id |-> ""]
PLoop == [null |-> FALSE, id |-> "Z", resource_id |-> "z"]

Patients == {PA, PB, PNoRid}

O1 == Res("o1", "220045", Num(70), "bpm", At(2))
O2 == Res("o2", "223761", Num(37), "C", At(1))
O3 == Res("o3", "220045", Num(80), "bpm", At(3))
K1 == Res("k1", "c-asthma", NoValue, "", At(1))
K2 == Res("k2", "c-copd", NoValue, "", At(2))

FhirPath == "/fhir"

\* A page of a search result: entry is absent when hasEntry is FALSE; next is
\* the number of the page its "next" link leads to (a page without a link
\* has next = FALSE in hasNext).
Page(hasEntry, entry, hasNext, next) ==
  [hasEntry |-> hasEntry, entry |-> entry, hasNext |-> hasNext, next |-> next]

\* What the server holds for {resourceType}?subject=Patient/{rid}.
Chain(type, rid) ==
  CASE type = "Observation" /\ rid = "a" ->
         <<Page(TRUE, <<O1, O2>>, TRUE, 2), Page(TRUE, <<O1>>, FALSE, 0)>>
    [] type = "Condition" /\ rid = "a" ->
         <<Page(FALSE, <<>>, TRUE, 2), Page(TRUE, <<K1>>, FALSE, 0)>>
    [] type = "Observation" /\ rid = "b" -> <<Page(TRUE, <<O3>>, FALSE, 0)>>
    [] type = "Condition" /\ rid = "b" -> <<Page(TRUE, <<K2>>, FALSE, 0)>>
    [] type = "Observation" /\ rid = "z" ->
         <<Page(FALSE, <<>>, TRUE, 2), Page(FALSE, <<>>, TRUE, 1)>>
    [] OTHER -> <<>>

\* The chain ends in a page without a "next" link.
Terminates(type, rid) ==
  LET c == Chain(type, rid) IN Len(c) > 0 /\ ~c[Len(c)].hasNext

\* The Bundle of page k: the "next" link is written with the server's own origin.
BundleOf(type, rid, k) ==
  LET pg == Chain(type, rid)[k] IN
  [hasEntry |-> pg.hasEntry, entry |-> pg.entry,
   link |-> IF pg.hasNext
              THEN <<<<linkOrigin.scheme, linkOrigin.host, linkOrigin.port,
                       FhirPath, <<type, rid, pg.next>>>>>>
              ELSE <<>>]

NoBundle == [hasEntry |-> FALSE, entry |-> <<>>, link |-> <<>>]

\* fhirClient.request(url): a relative url is the first search request; an
\* absolute one names a page by path and query.  <<>> when nothing is served
\* there.
Respond(url) ==
  IF url[1] = ""
    THEN IF Chain(url[4], url[5][2]) # <<>>
           THEN <<BundleOf(url[4], url[5][2], 1)>> ELSE <<>>
  ELSE IF url[4] = FhirPath /\ url[5][3] \in 1..Len(Chain(url[5][1], url[5][2]))
    THEN <<BundleOf(url[5][1], url[5][2], url[5][3])>>
  ELSE <<>>

RECURSIVE Flatten(_)
Flatten(pages) ==
  IF pages = <<>> THEN <<>>
  ELSE (IF Head(pages).hasEntry THEN Head(pages).entry ELSE <<>>) \o Flatten(Tail(pages))

----------------------------------------------------------------------------
(* fetchAllFHIRResourcesForPatient (lines 353-381), one response at a time.  *)

Inc(n) == IF n < MaxCount THEN n + 1 ELSE n

\* Line 358.
FirstUrl(type, rid) == <<"", "", NoPort, type, <<"", rid, 0>>>>

OkResp(bundle) == [ok |-> TRUE, bundle |-> bundle, error |-> ""]
ErrResp(e) == [ok |-> FALSE, bundle |-> NoBundle, error |-> e]

\* A mutation of the accumulation: an entry already collected is skipped.
RECURSIVE AppendNew(_, _)
AppendNew(acc, entries) ==
  IF entries = <<>> THEN acc
  ELSE AppendNew(IF \E j \in 1..Len(acc) : acc[j] = Head(entries)
                   THEN acc ELSE Append(acc, Head(entries)),
                 Tail(entries))

AccumulateEntriesDedup(acc, bundle) ==
  IF bundle.hasEntry THEN AppendNew(acc, bundle.entry) ELSE acc

\* Lines 365-367.
AccumulateEntries(acc, bundle) ==
  IF bundle.hasEntry THEN acc \o bundle.entry ELSE acc

\* A mutation of the loop: a failed request ends it with what was collected.
FetchStepPartial(t, resp) ==
  IF ~resp.ok
    THEN [status |-> "returned", allResources |-> t.allResources,
          nextUrl |-> t.nextUrl, nreq |-> t.nreq, error |-> ""]
  ELSE LET acc == AccumulateEntries(t.allResources, resp.bundle) IN
       IF resp.bundle.link # <<>>
         THEN [status |-> "running", allResources |-> acc,
               nextUrl |-> RewriteNextUrl(resp.bundle.link[1], baseUrl),
               nreq |-> Inc(t.nreq), error |-> ""]
         ELSE [status |-> "returned", allResources |-> acc, nextUrl |-> t.nextUrl,
               nreq |-> t.nreq, error |-> ""]

\* A mutation of the loop: nextUrl is not reset on the last page, which is
\* requested again.
FetchStepNoStop(t, resp) ==
  IF ~resp.ok
    THEN [status |-> "rejected", allResources |-> <<>>, nextUrl |-> t.nextUrl,
          nreq |-> t.nreq, error |-> resp.error]
  ELSE LET acc == AccumulateEntries(t.allResources, resp.bundle) IN
       [status |-> "running", allResources |-> acc,
        nextUrl |-> IF resp.bundle.link # <<>>
                      THEN RewriteNextUrl(resp.bundle.link[1], baseUrl)
                      ELSE t.nextUrl,
        nreq |-> Inc(t.nreq), error |-> ""]

\* A mutation of the loop: pagination stops after two pages.
FetchStepCeiling(t, resp) ==
  IF ~resp.ok
    THEN [status |-> "rejected", allResources |-> <<>>, nextUrl |-> t.nextUrl,
          nreq |-> t.nreq, error |-> resp.error]
  ELSE LET acc == AccumulateEntries(t.allResources, resp.bundle) IN
       IF resp.bundle.link # <<>> /\ t.nreq < 2
         THEN [status |-> "running", allResources |-> acc,
               nextUrl |-> RewriteNextUrl(resp.bundle.link[1], baseUrl),
               nreq |-> Inc(t.nreq), error |-> ""]
         ELSE [status |-> "returned", allResources |-> acc, nextUrl |-> t.nextUrl,
               nreq |-> t.nreq, error |-> ""]

\* Lines 363-380 for the response resp to the request for t.nextUrl: the call
\* goes on with another request, returns, or rejects.
FetchStep(t, resp) ==
  IF ~resp.ok
    THEN [status |-> "rejected", allResources |-> <<>>, nextUrl |-> t.nextUrl,
          nreq |-> t.nreq, error |-> resp.error]
  ELSE LET acc == AccumulateEntries(t.allResources, resp.bundle) IN
       IF resp.bundle.link # <<>>
         THEN [status |-> "running", allResources |-> acc,
               nextUrl |-> RewriteNextUrl(resp.bundle.link[1], baseUrl),
               nreq |-> Inc(t.nreq), error |-> ""]
         ELSE [status |-> "returned", allResources |-> acc, nextUrl |-> t.nextUrl,
               nreq |-> t.nreq, error |-> ""]

----------------------------------------------------------------------------
(* fetchChartDataForPatient (lines 383-406) and the watchers (409-410).      *)

Displayed ==
  [observations |-> observations, conditions |-> conditions, vitals |-> vitals,
   vitalStats |-> vitalStats, chart |-> timeSeriesChartData]

\* Lines 73-95: what the refs hold before any refresh.
Cleared ==
  [observations |-> <<>>, conditions |-> <<>>, vitals |-> EmptyVitals,
   vitalStats |-> InitialVitalStats, chart |-> EmptyChart]

\* A refresh that has begun its Observation fetch.
NewTask(rid) ==
  [rid |-> rid, pc |-> "fetch", type |-> "Observation",
   nextUrl |-> FirstUrl("Observation", rid), allResources |-> <<>>,
   nreq |-> 1, nresp |-> 0, lastResp |-> OkResp(NoBundle),
   rets |-> <<>>, before |-> Displayed, doneAtStart |-> Len(completed)]

\* The finished call, as the history keeps it.
Ret(t, resp, o) ==
  [type |-> t.type, status |-> o.status, result |-> o.allResources,
   error |-> o.error, nreq |-> o.nreq, nresp |-> Inc(t.nresp), lastResp |-> resp]

TickPending == \E i \in 1..Len(tasks) : tasks[i].pc = "tick"

InFlight(i) == tasks[i].pc \in {"fetch", "tick"}

\* A mutation of line 390: a result for a patient that is no longer the
\* current one is discarded.
StoreObservationsFenced(t, res) ==
  IF t.rid = currentPatient.resource_id THEN res ELSE observations

\* Line 390: the value assigned to observations when the Observation fetch
\* of task t returned res.
StoreObservations(t, res) == res

\* A mutation of line 392: the classifier gets what this refresh fetched.
ClassifierInputOwn(own, shown) == own

\* Line 392: the list handed to the classifier; own is what this refresh
\* fetched, shown is observations.value.
ClassifierInput(own, shown) == shown

\* The response resp to the outstanding request of task i arrives and the
\* code runs up to its next await.
Deliver(i, resp) ==
  \E t \in {tasks[i]} :
  \E o \in {FetchStep(t, resp)} :
  \E ret \in {Ret(t, resp, o)} :
  \E own \in {IF Len(t.rets) > 0 THEN t.rets[1].result ELSE <<>>} :
  IF o.status = "running" THEN
    /\ tasks' = [tasks EXCEPT ![i] =
         [t EXCEPT !.allResources = o.allResources, !.nextUrl = o.nextUrl,
                   !.nreq = o.nreq, !.nresp = Inc(@), !.lastResp = resp]]
    /\ UNCHANGED <<displayVars, obsOrder, completed>>
  ELSE IF o.status = "rejected" THEN                   \* catch (lines 403-405)
    /\ tasks' = [tasks EXCEPT ![i] =
         [t EXCEPT !.pc = "failed", !.rets = Append(@, ret),
                   !.nresp = Inc(@), !.lastResp = resp]]
    /\ completed' = Append(completed, i)
    /\ UNCHANGED <<displayVars, obsOrder>>
  ELSE IF t.type = "Observation" THEN                  \* line 390, then 391
    /\ observations' = StoreObservations(t, o.allResources)
    /\ tasks' = [tasks EXCEPT ![i] =
         [t EXCEPT !.type = "Condition",
                   !.nextUrl = FirstUrl("Condition", t.rid),
                   !.allResources = <<>>, !.nreq = 1, !.nresp = 0,
                   !.lastResp = OkResp(NoBundle), !.rets = Append(@, ret)]]
    /\ obsOrder' = Append(obsOrder, i)
    /\ UNCHANGED <<conditions, vitals, vitalStats, timeSeriesChartData,
                   chartOptions, completed>>
  ELSE                                                 \* lines 391-395
    /\ conditions' = o.allResources
    /\ \E ex \in {extractAndSortVitalSignsObservations(ClassifierInput(own, observations))} :
         IF ex.threw
           THEN /\ tasks' = [tasks EXCEPT ![i] =
                     [t EXCEPT !.pc = "failed", !.rets = Append(@, ret),
                               !.nresp = Inc(@), !.lastResp = resp]]
                /\ completed' = Append(completed, i)
                /\ UNCHANGED <<vitals, vitalStats>>
           ELSE /\ vitals' = ex.groups
                /\ \E stats \in {computeVitalStats(ex.groups)} : vitalStats' = stats
                /\ tasks' = [tasks EXCEPT ![i] =
                     [t EXCEPT !.pc = "tick", !.rets = Append(@, ret),
                               !.nresp = Inc(@), !.lastResp = resp]]
                /\ UNCHANGED completed
    /\ UNCHANGED <<observations, timeSeriesChartData, chartOptions, obsOrder>>

\* The store's selectedPatient becomes p; the watcher (line 409) then calls
\* fetchChartDataForPatient, which returns at once without a resource id
\* (lines 384-385).
SetCurrentPatient(p) ==
  /\ UNCHANGED appVars
  /\ ~TickPending
  /\ p # currentPatient
  /\ currentPatient' = p
  /\ IF p.null \/ p.resource_id = ""
       THEN UNCHANGED tasks
       ELSE /\ Len(tasks) < MaxRefresh
            /\ tasks' = Append(tasks, NewTask(p.resource_id))
  /\ UNCHANGED <<baseUrl, linkOrigin, displayVars, selectedVital, obsOrder,
                 completed, pureVars>>

\* The server answers the outstanding request of task i.
PageOk(i) ==
  /\ UNCHANGED appVars
  /\ ~TickPending
  /\ i \in 1..Len(tasks)
  /\ tasks[i].pc = "fetch"
  /\ \E served \in {Respond(tasks[i].nextUrl)} :
       /\ served # <<>>
       /\ \E resp \in {OkResp(served[1])} : Deliver(i, resp)
  /\ UNCHANGED <<baseUrl, linkOrigin, currentPatient, selectedVital, pureVars>>

\* The outstanding request of task i fails with error e.
RequestFail(i, e) ==
  /\ UNCHANGED appVars
  /\ ~TickPending
  /\ i \in 1..Len(tasks)
  /\ tasks[i].pc = "fetch"
  /\ \E resp \in {ErrResp(e)} : Deliver(i, resp)
  /\ UNCHANGED <<baseUrl, linkOrigin, currentPatient, selectedVital, pureVars>>

\* Lines 395-396: nextTick resolves and updateChartData runs.
NextTick(i) ==
  /\ UNCHANGED appVars
  /\ i \in 1..Len(tasks)
  /\ tasks[i].pc = "tick"
  /\ timeSeriesChartData' = ChartFor(vitals[selectedVital], selectedVital)
  /\ chartOptions' = UnitFor(vitals[selectedVital])
  /\ tasks' = [tasks EXCEPT ![i].pc = "done"]
  /\ completed' = Append(completed, i)
  /\ UNCHANGED <<baseUrl, linkOrigin, currentPatient, observations, conditions,
                 vitals, vitalStats, selectedVital, obsOrder, pureVars>>

\* The toggle changes selectedVital; the watcher (line 410) runs updateChartData.
SelectVital(k) ==
  /\ UNCHANGED appVars
  /\ ~TickPending
  /\ k # selectedVital
  /\ selectedVital' = k
  /\ timeSeriesChartData' = ChartFor(vitals[k], k)
  /\ chartOptions' = UnitFor(vitals[k])
  /\ UNCHANGED <<baseUrl, linkOrigin, currentPatient, observations, conditions,
                 vitals, vitalStats, tasks, obsOrder, completed, pureVars>>

----------------------------------------------------------------------------
(* The other components before anything has happened.                        *)

\* A Record created by Object.create(null) or {}: no key is present.
NoKeys == <<>>

InitPatient ==
  /\ selectedPatient = NullPatient        \* part_005 line 21
  /\ primarySelection = "none"

InitPanel ==
  /\ patientInfo = <<>>
  /\ dicomMessage = ""

InitDetail ==
  /\ isFetching = TRUE                    \* PatientDetails.vue line 24
  /\ metaRequests = <<>>

InitChat ==
  /\ chatHistories = NoKeys               \* part_001 line 43
  /\ selectedModel = "medgemma"           \* backend-model-store.ts line 18
  /\ isTyping = FALSE                     \* part_001 line 45
  /\ rpc = <<>>

InitModule ==
  /\ messages = <<>>                      \* ChatModule.vue line 30
  /\ moduleTyping = FALSE                 \* ChatModule.vue line 32
  /\ moduleRpc = <<>>

InitStore ==
  /\ store = "medgemma"
  /\ analysisIdList = <<>>
  /\ analysisInput = NoKeys
  /\ analysisOutput = NoKeys
  /\ analysisDone = NoKeys
  /\ idsPassed = {}

InitApp ==
  /\ InitPatient /\ InitPanel /\ InitDetail /\ InitChat /\ InitModule /\ InitStore

----------------------------------------------------------------------------
(* Specifications.                                                           *)

Schemes == {"http", "https"}

\* localServerUrl as deployed by the README: the server's port 8080 is
\* published as http://localhost:3000.
LocalServerUrl == <<"http", "localhost", 3000, "", <<"", "", 0>>>>

ServerOrigin == [scheme |-> "http", host |-> "hapi", port |-> 8080]

\* Configured server URLs: with a port, with the scheme's default port
\* written out, and without a port.
BaseUrlStrings ==
  {<<sc, "localhost", pt, "", <<"", "", 0>>>> :
     sc \in Schemes, pt \in {NoPort, 80, 443, 3000}}

\* Origins a server may write into its links.
LinkOrigins ==
  {[scheme |-> sc, host |-> h, port |-> pt] :
     sc \in Schemes, h \in {"hapi", "localhost"}, pt \in {NoPort, 80, 443, 8080}}

SelectableVitals == {"heart_rate", "temperature"}

Errors == {"network"}

NotRun == [threw |-> FALSE, groups |-> EmptyVitals]

InitDisplay ==
  /\ observations = <<>>
  /\ conditions = <<>>
  /\ vitals = EmptyVitals
  /\ vitalStats = InitialVitalStats
  /\ timeSeriesChartData = EmptyChart
  /\ chartOptions = "Value"
  /\ selectedVital = "heart_rate"
  /\ currentPatient = NullPatient
  /\ tasks = <<>>
  /\ obsOrder = <<>>
  /\ completed = <<>>

Init ==
  /\ baseUrl = ParseURL(LocalServerUrl)
  /\ linkOrigin = ServerOrigin
  /\ InitDisplay
  /\ InitApp
  /\ input = <<>>
  /\ output = NotRun
  /\ ran = "none"

Next ==
  \/ \E p \in Patients : SetCurrentPatient(p)
  \/ \E i \in 1..MaxRefresh : PageOk(i)
  \/ \E i \in 1..MaxRefresh, e \in Errors : RequestFail(i, e)
  \/ \E i \in 1..MaxRefresh : NextTick(i)
  \/ \E k \in SelectableVitals : SelectVital(k)

Spec == Init /\ [][Next]_vars

\* One refresh against every pairing of configured URL and link origin.
InitFetch ==
  /\ baseUrl \in {ParseURL(u) : u \in BaseUrlStrings}
  /\ linkOrigin \in LinkOrigins
  /\ InitDisplay
  /\ InitApp
  /\ input = <<>>
  /\ output = NotRun
  /\ ran = "none"

StartRefresh(p) == tasks = <<>> /\ SetCurrentPatient(p)

NextFetch ==
  \/ \E p \in {PA, PB} : StartRefresh(p)
  \/ PageOk(1)
  \/ \E e \in Errors : RequestFail(1, e)
  \/ NextTick(1)

SpecFetch == InitFetch /\ [][NextFetch]_vars

\* Refreshes against a network that answers every request: patient a's
\* chains end, patient z's Observation chain links its pages in a circle.
LivePatients == {PA, PLoop}

NextLive ==
  \/ \E p \in LivePatients : SetCurrentPatient(p)
  \/ \E i \in 1..MaxRefresh : PageOk(i)
  \/ \E i \in 1..MaxRefresh : NextTick(i)

\* Every request is answered and every continuation that is ready runs.
SpecLive ==
  /\ Init
  /\ [][NextLive]_vars
  /\ \A i \in 1..MaxRefresh : WF_vars(PageOk(i)) /\ WF_vars(NextTick(i))

----------------------------------------------------------------------------
(* The patient store (part_005 lines 21-34; the patient-store variant is at  *)
(* PatientImagesListModule.vue lines 312-345) and the imaging-studies panel  *)
(* (PatientImagesListModule.vue lines 44-66 and its template).               *)

\* A second record for the patient with id "A", and a patient whose id
\* differs from it in case only.
PA2 == [null |-> FALSE, id |-> "A", resource_id |-> "a2"]
PLowerA == [null |-> FALSE, id |-> "a", resource_id |-> "la"]

StorePatients == {PA, PA2, PB, PLowerA}

\* selectedPatient.value?.id: <<>> is undefined.
IdOf(p) == IF p.null THEN <<>> ELSE <<p.id>>

\* A mutation of line 31: without a previous patient nothing is cleared.
IdChangedFromPrevious(old, new) == old # <<>> /\ old # new

\* part_005 line 31, oldPatientId != selectedPatient.value?.id (!== at
\* PatientImagesListModule.vue line 321): ids are strings or undefined.
IdChanged(old, new) == old # new

\* part_005 lines 23-34.
setCurrentPatient(patient) ==
  /\ selectedPatient' = patient
  /\ primarySelection' =
       IF IdChanged(IdOf(selectedPatient), IdOf(patient)) THEN "none"
       ELSE primarySelection
  /\ UNCHANGED <<chartVars, panelVars, detailVars, chatVars, moduleVars, storeVars>>

\* PatientImagesListModule.vue lines 339-345.
clearPatient ==
  /\ selectedPatient' = NullPatient
  /\ primarySelection' = "none"
  /\ UNCHANGED <<chartVars, panelVars, detailVars, chatVars, moduleVars, storeVars>>

\* The user makes volume v the primary selection (datasets.setPrimarySelection).
Volumes == {"vol1", "vol2"}

setPrimarySelection(v) ==
  /\ primarySelection' = v
  /\ UNCHANGED <<chartVars, selectedPatient, panelVars, detailVars, chatVars,
                 moduleVars, storeVars>>

\* Records of the DICOM store.
DA == [PatientID |-> "A", PatientName |-> "Alice"]
DLowerA == [PatientID |-> "a", PatientName |-> "alice"]
DC == [PatientID |-> "C", PatientName |-> "Carol"]

DicomRecords == {DA, DLowerA, DC}

\* fetchDicomsOnce (line 33) brings record d into patientInfo.
LoadDicomPatient(d) ==
  /\ \A n \in 1..Len(patientInfo) : patientInfo[n] # d
  /\ patientInfo' = Append(patientInfo, d)
  /\ UNCHANGED <<chartVars, patientVars, dicomMessage, detailVars, chatVars,
                 moduleVars, storeVars>>

\* The DICOM store reports an error (dicomWebStore.message, template line 71).
DicomError ==
  /\ dicomMessage = ""
  /\ dicomMessage' = "error"
  /\ UNCHANGED <<chartVars, patientVars, patientInfo, detailVars, chatVars,
                 moduleVars, storeVars>>

\* A mutation of line 53: the ids are compared without regard to case.
Lower(s) == IF s = "A" THEN "a" ELSE IF s = "C" THEN "c" ELSE IF s = "B" THEN "b" ELSE s

SameIdIgnoringCase(a, b) == Lower(a) = Lower(b)

\* Line 53: dicomPatient.PatientID === selectedFHIRPatient.value?.id.
SameId(a, b) == a = b

NoDicomPatient == [found |-> FALSE, key |-> "", name |-> ""]

\* Lines 44-66: the computed selectedDicomPatient.
selectedDicomPatient ==
  IF selectedPatient.null THEN NoDicomPatient
  ELSE LET matches == {n \in 1..Len(patientInfo) :
                         SameId(patientInfo[n].PatientID, selectedPatient.id)}
       IN IF matches = {} THEN NoDicomPatient
          ELSE LET n == CHOOSE x \in matches : \A y \in matches : x <= y
               IN [found |-> TRUE, key |-> patientInfo[n].PatientID,
                   name |-> patientInfo[n].PatientName]

\* The template (lines 70-120): which of its branches is rendered, and the
\* patient key handed to patient-details.
Panel ==
  IF dicomMessage # "" THEN [shows |-> "error", key |-> ""]
  ELSE IF ~selectedPatient.null THEN
    IF selectedDicomPatient.found
      THEN [shows |-> "studies", key |-> selectedDicomPatient.key]
      ELSE [shows |-> "no matching studies", key |-> ""]
  ELSE [shows |-> "no patient", key |-> ""]

InitPanelSpec ==
  /\ baseUrl = ParseURL(LocalServerUrl)
  /\ linkOrigin = ServerOrigin
  /\ InitDisplay
  /\ input = <<>> /\ output = NotRun /\ ran = "none"
  /\ InitApp

NextPanel ==
  \/ \E p \in StorePatients : setCurrentPatient(p)
  \/ clearPatient
  \/ \E v \in Volumes : setPrimarySelection(v)
  \/ \E d \in DicomRecords : LoadDicomPatient(d)
  \/ DicomError

SpecPanel == InitPanelSpec /\ [][NextPanel]_vars

----------------------------------------------------------------------------
(* PatientDetails.vue lines 21-43: the watcher of the selected patient's id  *)
(* and the loading flag.                                                     *)

\* Lines 32-43, the watcher's callback for the new id (<<>> is undefined):
\* a truthy id sets the flag and starts fetchPatientMeta.
WatchSelectedPatientId(newId) ==
  IF newId # <<>> /\ newId[1] # ""
    THEN /\ isFetching' = TRUE
         /\ metaRequests' = Append(metaRequests, newId[1])
    ELSE UNCHANGED detailVars

\* The store selects patient p (part_005 lines 23-34); the computed
\* selectedPatientId (line 21) changes with the id and then the watcher runs.
SelectForDetails(p) ==
  /\ Len(metaRequests) < MaxPending
  /\ p # selectedPatient
  /\ selectedPatient' = p
  /\ primarySelection' =
       IF IdChanged(IdOf(selectedPatient), IdOf(p)) THEN "none" ELSE primarySelection
  /\ IF IdOf(p) # IdOf(selectedPatient)
       THEN WatchSelectedPatientId(IdOf(p))
       ELSE UNCHANGED detailVars
  /\ UNCHANGED <<chartVars, panelVars, chatVars, moduleVars, storeVars>>

\* Lines 37-39: the n-th pending fetchPatientMeta settles, fulfilled or
\* rejected, and its finally callback runs.
MetaRequestSettles(n) ==
  /\ n \in 1..Len(metaRequests)
  /\ metaRequests' = [k \in 1..(Len(metaRequests) - 1) |->
                        IF k < n THEN metaRequests[k] ELSE metaRequests[k + 1]]
  /\ isFetching' = FALSE
  /\ UNCHANGED <<chartVars, patientVars, panelVars, chatVars, moduleVars, storeVars>>

\* The component is set up with a patient selected: the immediate watcher
\* (line 42) has run for that patient's id.
InitDetailSpec ==
  /\ baseUrl = ParseURL(LocalServerUrl)
  /\ linkOrigin = ServerOrigin
  /\ InitDisplay
  /\ input = <<>> /\ output = NotRun /\ ran = "none"
  /\ selectedPatient \in StorePatients
  /\ primarySelection = "none"
  /\ InitPanel /\ InitChat /\ InitModule /\ InitStore
  /\ isFetching = TRUE
  /\ metaRequests = <<selectedPatient.id>>

NextDetail ==
  \/ \E p \in StorePatients : SelectForDetails(p)
  \/ \E v \in Volumes : setPrimarySelection(v)
  \/ \E n \in 1..MaxPending : MetaRequestSettles(n)

SpecDetail == InitDetailSpec /\ [][NextDetail]_vars

----------------------------------------------------------------------------
(* The analysis stores: python-analysis-store (part_006 lines 13-67),        *)
(* medgemma-store (part_003 lines 15-88) and backend-model-store             *)
(* (backend-model-store.ts lines 13-71).  A Record is a function from the    *)
(* keys that are present.                                                    *)

Stores == {"python", "medgemma", "backend"}

AnalysisIds == {"A", "B", "0"}

\* The array index an id names as a property key, -1 when it names none.
IndexNamedBy(id) == IF id = "0" THEN 0 ELSE IF id = "1" THEN 1 ELSE IF id = "2" THEN 2 ELSE -1

\* part_006 line 29, id in this.analysisIdList: the in operator asks whether
\* id is a property key of the array, that is one of its indices or "length".
InArray(id, list) ==
  \/ IndexNamedBy(id) >= 0 /\ IndexNamedBy(id) < Len(list)
  \/ id = "length"

\* part_003 line 50 and backend-model-store.ts line 37: list.includes(id).
Includes(list, id) == \E n \in 1..Len(list) : list[n] = id

\* The test of addAnalysisId in store s.
AlreadyListed(s, id, list) ==
  IF s = "python" THEN InArray(id, list) ELSE Includes(list, id)

\* addAnalysisId: part_006 lines 28-32, part_003 lines 49-53,
\* backend-model-store.ts lines 36-40.
ListAfterAdd(id) ==
  IF AlreadyListed(store, id, analysisIdList) THEN analysisIdList
  ELSE Append(analysisIdList, id)

addAnalysisId(id) ==
  /\ Len(analysisIdList) < MaxLen
  /\ analysisIdList' = ListAfterAdd(id)
  /\ idsPassed' = idsPassed \cup {id}
  /\ UNCHANGED <<store, analysisInput, analysisOutput, analysisDone>>
  /\ UNCHANGED <<chartVars, patientVars, panelVars, detailVars, chatVars, moduleVars>>

\* What setAnalysisInput(id, in) does to the store.
InputIsSet(id, in) ==
  /\ analysisIdList' = ListAfterAdd(id)
  /\ idsPassed' = idsPassed \cup {id}
  /\ analysisInput' = (id :> in) @@ analysisInput
  /\ UNCHANGED <<store, analysisOutput, analysisDone>>

\* What setAnalysisResult(id, result) does to the store.
ResultIsSet(id, result) ==
  /\ analysisOutput' = (id :> result) @@ analysisOutput
  /\ analysisDone' = IF store = "backend" THEN analysisDone
                     ELSE (id :> TRUE) @@ analysisDone
  /\ UNCHANGED <<store, analysisIdList, analysisInput, idsPassed>>

\* setAnalysisInput: part_006 lines 38-41, part_003 lines 59-62,
\* backend-model-store.ts lines 46-49.
setAnalysisInput(id, in) ==
  /\ Len(analysisIdList) < MaxLen
  /\ InputIsSet(id, in)
  /\ UNCHANGED <<chartVars, patientVars, panelVars, detailVars, chatVars, moduleVars>>

\* setAnalysisResult: part_006 lines 47-50, part_003 lines 68-71,
\* backend-model-store.ts lines 55-57 (which keeps no analysisDone).
setAnalysisResult(id, result) ==
  /\ ResultIsSet(id, result)
  /\ UNCHANGED <<chartVars, patientVars, panelVars, detailVars, chatVars, moduleVars>>

\* clearAnalysis: part_006 lines 55-65, part_003 lines 76-86,
\* backend-model-store.ts lines 62-69.
clearAnalysis(id) ==
  /\ analysisInput' = IF id \in DOMAIN analysisInput
                        THEN (id :> "empty") @@ analysisInput ELSE analysisInput
  /\ analysisOutput' = IF id \in DOMAIN analysisOutput
                         THEN (id :> "null") @@ analysisOutput ELSE analysisOutput
  /\ analysisDone' = IF id \in DOMAIN analysisDone
                       THEN (id :> FALSE) @@ analysisDone ELSE analysisDone
  /\ UNCHANGED <<store, analysisIdList, idsPassed>>
  /\ UNCHANGED <<chartVars, patientVars, panelVars, detailVars, chatVars, moduleVars>>

AnalysisInputs == {"in1"}
AnalysisResults == {"out1"}

\* Each of the three stores, from its initial state.
InitStoreSpec ==
  /\ baseUrl = ParseURL(LocalServerUrl)
  /\ linkOrigin = ServerOrigin
  /\ InitDisplay
  /\ input = <<>> /\ output = NotRun /\ ran = "none"
  /\ InitPatient /\ InitPanel /\ InitDetail /\ InitChat /\ InitModule
  /\ store \in Stores
  /\ analysisIdList = <<>>
  /\ analysisInput = NoKeys
  /\ analysisOutput = NoKeys
  /\ analysisDone = NoKeys
  /\ idsPassed = {}

NextStore ==
  \/ \E id \in AnalysisIds : addAnalysisId(id)
  \/ \E id \in AnalysisIds, in \in AnalysisInputs : setAnalysisInput(id, in)
  \/ \E id \in AnalysisIds, result \in AnalysisResults : setAnalysisResult(id, result)
  \/ \E id \in AnalysisIds : clearAnalysis(id)

SpecStore == InitStoreSpec /\ [][NextStore]_vars

----------------------------------------------------------------------------
(* The multi-model chat (part_001 lines 43-175).  A message is [text,        *)
(* sender]; forPatient and forModel are history: the patient id and the      *)
(* model of the request the message belongs to.                              *)

\* Line 20, and the store's initial model (backend-model-store.ts line 18).
AVAILABLE_MODELS == {"MedGemma", "Clara NV-Reason-CXR-3B"}

SorryMessage == "Sorry, an error occurred while processing your request. Please try again."

\* What the server stores as the analysis output for patient id.
ReplyFor(id) == IF id = "A" THEN "reply for A" ELSE IF id = "B" THEN "reply for B" ELSE "reply"

\* Lines 109-116: appendMessage for the model that is selected at the call.
Appended(histories, model, msg) ==
  (model :> Append(IF model \in DOMAIN histories THEN histories[model] ELSE <<>>, msg))
    @@ histories

\* Lines 159-171: the text of the bot message, from the store's output for id.
BotText(out, id) ==
  IF id \in DOMAIN out /\ out[id] # "null" /\ out[id] # "" THEN out[id] ELSE SorryMessage

\* The number of messages the histories hold.
MessageCount(histories) ==
  Cardinality(UNION {{<<k, n>> : n \in 1..Len(histories[k])} : k \in DOMAIN histories})

\* Lines 81-83.
selectModel(model) ==
  /\ selectedModel' = model
  /\ UNCHANGED <<chatHistories, isTyping, rpc>>
  /\ UNCHANGED <<chartVars, patientVars, panelVars, detailVars, moduleVars, storeVars>>

\* The store selects patient p (part_005 lines 23-34); the watcher of
\* selectedPatient (lines 70-72) then runs resetAllChats (lines 88-90).
SelectForChat(p) ==
  /\ p # selectedPatient
  /\ selectedPatient' = p
  /\ primarySelection' =
       IF IdChanged(IdOf(selectedPatient), IdOf(p)) THEN "none" ELSE primarySelection
  /\ chatHistories' = NoKeys
  /\ UNCHANGED <<selectedModel, isTyping, rpc>>
  /\ UNCHANGED <<chartVars, panelVars, detailVars, moduleVars, storeVars>>

\* Lines 119-156: sendMessage up to its await.
sendMessage(text) ==
  /\ ~isTyping
  /\ ~selectedPatient.null /\ selectedPatient.id # ""
  /\ MessageCount(chatHistories) < MaxLen
  /\ chatHistories' = Appended(chatHistories, selectedModel,
       [text |-> text, sender |-> "user",
        forPatient |-> selectedPatient.id, forModel |-> selectedModel])
  /\ isTyping' = TRUE
  /\ InputIsSet(selectedPatient.id, text)
  /\ rpc' = <<[patientID |-> selectedPatient.id, model |-> selectedModel]>>
  /\ UNCHANGED selectedModel
  /\ UNCHANGED <<chartVars, patientVars, panelVars, detailVars, moduleVars>>

\* Lines 152-174: the call returns.  With stored, the server has set the
\* analysis output of the call's patient; with rejected, the call failed.
RpcReturns(stored, rejected) ==
  /\ rpc # <<>>
  /\ IF stored /\ ~rejected
       THEN ResultIsSet(rpc[1].patientID, ReplyFor(rpc[1].patientID))
       ELSE UNCHANGED storeVars
  /\ chatHistories' = Appended(chatHistories, selectedModel,
       [text |-> IF rejected THEN SorryMessage
                 ELSE BotText(analysisOutput', rpc[1].patientID),
        sender |-> "bot",
        forPatient |-> rpc[1].patientID, forModel |-> rpc[1].model])
  /\ isTyping' = FALSE
  /\ rpc' = <<>>
  /\ UNCHANGED selectedModel
  /\ UNCHANGED <<chartVars, patientVars, panelVars, detailVars, moduleVars>>

ChatPatients == {PA, PB}

ChatTexts == {"hello"}

InitChatSpec ==
  /\ baseUrl = ParseURL(LocalServerUrl)
  /\ linkOrigin = ServerOrigin
  /\ InitDisplay
  /\ input = <<>> /\ output = NotRun /\ ran = "none"
  /\ InitPatient /\ InitPanel /\ InitDetail /\ InitChat /\ InitModule
  /\ store = "backend"
  /\ analysisIdList = <<>>
  /\ analysisInput = NoKeys
  /\ analysisOutput = NoKeys
  /\ analysisDone = NoKeys
  /\ idsPassed = {}

NextChatSpec ==
  \/ \E p \in ChatPatients : SelectForChat(p)
  \/ \E model \in AVAILABLE_MODELS : selectModel(model)
  \/ \E text \in ChatTexts : sendMessage(text)
  \/ \E stored, rejected \in BOOLEAN : RpcReturns(stored, rejected)

SpecChat == InitChatSpec /\ [][NextChatSpec]_vars

----------------------------------------------------------------------------
(* The single-model chat (ChatModule.vue lines 30-101), on the medgemma      *)
(* store.  A message is [text, sender]; forPatient is history: the patient   *)
(* id that was passed to the call the message belongs to.                    *)

\* Lines 89-97: the text of the bot message when the call has returned: the
\* store's output is read under the id of the patient selected at that time,
\* and reading the id of no patient throws.
ModuleBotText(out, patient) ==
  IF patient.null THEN SorryMessage ELSE BotText(out, patient.id)

\* Lines 53-86: sendMessage up to its await, or to its end when no patient
\* with an id is selected.
ModuleSendMessage(text) ==
  /\ ~moduleTyping
  /\ Len(messages) < MaxLen
  /\ IF selectedPatient.null \/ selectedPatient.id = ""
       THEN /\ messages' = messages \o
                 <<[text |-> text, sender |-> "user", forPatient |-> ""],
                   [text |-> SorryMessage, sender |-> "bot", forPatient |-> ""]>>
            /\ UNCHANGED <<moduleTyping, moduleRpc, storeVars>>
       ELSE /\ messages' = Append(messages,
                 [text |-> text, sender |-> "user", forPatient |-> selectedPatient.id])
            /\ moduleTyping' = TRUE
            /\ InputIsSet(selectedPatient.id, text)
            /\ moduleRpc' = <<[patientID |-> selectedPatient.id]>>
  /\ UNCHANGED <<chartVars, patientVars, panelVars, detailVars, chatVars>>

\* Lines 86-100: the call returns.  With stored, the server has set the
\* analysis output of the call's patient; with rejected, the call failed.
ModuleRpcReturns(stored, rejected) ==
  /\ moduleRpc # <<>>
  /\ IF stored /\ ~rejected
       THEN ResultIsSet(moduleRpc[1].patientID, ReplyFor(moduleRpc[1].patientID))
       ELSE UNCHANGED storeVars
  /\ messages' = Append(messages,
       [text |-> IF rejected THEN SorryMessage
                 ELSE ModuleBotText(analysisOutput', selectedPatient),
        sender |-> "bot", forPatient |-> moduleRpc[1].patientID])
  /\ moduleTyping' = FALSE
  /\ moduleRpc' = <<>>
  /\ UNCHANGED <<chartVars, patientVars, panelVars, detailVars, chatVars>>

InitModuleSpec ==
  /\ baseUrl = ParseURL(LocalServerUrl)
  /\ linkOrigin = ServerOrigin
  /\ InitDisplay
  /\ input = <<>> /\ output = NotRun /\ ran = "none"
  /\ InitApp

NextModuleSpec ==
  \/ \E p \in ChatPatients : setCurrentPatient(p)
  \/ clearPatient
  \/ \E text \in ChatTexts : ModuleSendMessage(text)
  \/ \E stored, rejected \in BOOLEAN : ModuleRpcReturns(stored, rejected)

SpecModule == InitModuleSpec /\ [][NextModuleSpec]_vars

\* Patient changes, among them to no patient and to a patient without a
\* resource id, against a network that answers every request.
SwitchPatients == {PA, PB, PNoRid, NullPatient}

NextSwitch ==
  \/ \E p \in SwitchPatients : SetCurrentPatient(p)
  \/ \E i \in 1..MaxRefresh : PageOk(i)
  \/ \E i \in 1..MaxRefresh : NextTick(i)

SpecSwitch == Init /\ [][NextSwitch]_vars

\* The classifier applied to every list of at most MaxLen resources.
U1 == Res("u1", "999", Num(5), "", At(4))
N1 == Res("n1", "", Num(6), "", Absent)
P1 == Res("p1", "constructor", Num(7), "", At(5))

ResourceUniverse == {O1, O2, O3, U1, N1, P1}

ListsUpTo(S, n) == UNION {[1..k -> S] : k \in 0..n}

InitPure ==
  /\ baseUrl = ParseURL(LocalServerUrl)
  /\ linkOrigin = ServerOrigin
  /\ InitDisplay
  /\ InitApp
  /\ input \in ListsUpTo(ResourceUniverse, MaxLen)
  /\ output = NotRun
  /\ ran = "none"

RunClassify ==
  /\ UNCHANGED appVars
  /\ ran = "none"
  /\ output' \in ClassifyOutcomes(input)
  /\ ran' = "classify"
  /\ UNCHANGED <<baseUrl, linkOrigin, currentPatient, displayVars, selectedVital,
                 tasks, obsOrder, completed, input>>

NextPure == RunClassify

SpecPure == InitPure /\ [][NextPure]_vars

\* The classifier applied to every list of at most MaxSortLen heart-rate
\* resources: equal timestamps, an instant before the epoch, no timestamp,
\* and a timestamp that does not parse.
H5a == Res("h5a", "220045", Num(70), "bpm", At(5))
H5b == Res("h5b", "220045", Num(72), "bpm", At(5))
HPre == Res("hpre", "220045", Num(74), "bpm", At(-3))
HMissA == Res("hma", "220045", Num(76), "bpm", Absent)
HMissB == Res("hmb", "220045", Num(78), "bpm", Absent)
HBad == Res("hbad", "220045", Num(80), "bpm", Unparseable)

SortUniverse == {H5a, H5b, HPre, HMissA, HMissB, HBad}

InitSort ==
  /\ baseUrl = ParseURL(LocalServerUrl)
  /\ linkOrigin = ServerOrigin
  /\ InitDisplay
  /\ InitApp
  /\ input \in ListsUpTo(SortUniverse, MaxSortLen)
  /\ output = NotRun
  /\ ran = "none"

NextSort == RunClassify

SpecSort == InitSort /\ [][NextSort]_vars

\* computeVitalStats applied to every heart-rate list of at most MaxLen
\* resources: numeric values, among them one as large as the significand
\* holds, a value that is not a number, and no value.
V70 == Res("v70", "220045", Num(70), "bpm", At(1))
V72 == Res("v72", "220045", Num(72), "bpm", At(2))
V74 == Res("v74", "220045", Num(74), "bpm", At(3))
VOne == Res("v1", "220045", Num(1), "bpm", At(4))
VZero == Res("v0", "220045", Num(0), "bpm", At(5))
VBig == Res("vbig", "220045", Num(Pow2(Precision)), "bpm", At(6))
VStr == Res("vstr", "220045", NotANumber, "bpm", At(7))
VNone == Res("vnone", "220045", NoValue, "", At(8))

StatsUniverse == {V70, V72, V74, VOne, VZero, VBig, VStr, VNone}

InitStats ==
  /\ baseUrl = ParseURL(LocalServerUrl)
  /\ linkOrigin = ServerOrigin
  /\ InitDisplay
  /\ InitApp
  /\ input \in ListsUpTo(StatsUniverse, MaxLen)
  /\ output = NotRun
  /\ ran = "none"

RunStats ==
  /\ UNCHANGED appVars
  /\ ran = "none"
  /\ output' = computeVitalStats([EmptyVitals EXCEPT !["heart_rate"] = input])
  /\ ran' = "stats"
  /\ UNCHANGED <<baseUrl, linkOrigin, currentPatient, displayVars, selectedVital,
                 tasks, obsOrder, completed, input>>

NextStats == RunStats

SpecStats == InitStats /\ [][NextStats]_vars

\* computeTimeSeriesChartData applied to every heart-rate list of at most
\* MaxLen resources: each of the three timestamps parseable, unparseable or
\* absent, and the value a number, zero, not a number or absent.
ResAt(id, value, lu, eff, iss) ==
  [Res(id, "220045", value, "bpm", lu) EXCEPT !.effectiveDateTime = eff, !.issued = iss]

T5 == ResAt("t5", Num(72), At(5), Absent, Absent)
TZero == ResAt("tzero", Num(0), Absent, At(3), At(1))
TBadFirst == ResAt("tbadfirst", Num(74), Unparseable, At(4), Absent)
TIssued == ResAt("tissued", Num(76), Absent, Absent, At(1))
TStr == ResAt("tstr", NotANumber, At(6), Absent, Absent)
TNoValue == ResAt("tnovalue", NoValue, At(2), Absent, Absent)
TNoDate == ResAt("tnodate", Num(78), Absent, Absent, Absent)
TBadSecond == ResAt("tbadsecond", Num(80), Absent, Unparseable, At(7))

ChartUniverse == {T5, TZero, TBadFirst, TIssued, TStr, TNoValue, TNoDate, TBadSecond}

InitChart ==
  /\ baseUrl = ParseURL(LocalServerUrl)
  /\ linkOrigin = ServerOrigin
  /\ InitDisplay
  /\ InitApp
  /\ input \in ListsUpTo(ChartUniverse, MaxLen)
  /\ output = NotRun
  /\ ran = "none"

RunChart ==
  /\ UNCHANGED appVars
  /\ ran = "none"
  /\ output' = computeTimeSeriesChartData(input, VITALS_COLOR_MAP["heart_rate"],
                                          VITAL_SIGN_LABELS["heart_rate"])
  /\ ran' = "chart"
  /\ UNCHANGED <<baseUrl, linkOrigin, currentPatient, displayVars, selectedVital,
                 tasks, obsOrder, completed, input>>

NextChart == RunChart

SpecChart == InitChart /\ [][NextChart]_vars

\* A mutation of lines 237-243: the sort is applied to the argument itself.
ArgumentAfterClassifySortedInPlace(list) == SortDesc(list)

\* Lines 225-243: the argument list after the call.  The loop only reads it;
\* push and sort act on the arrays of the fresh record vitalSigns.
ArgumentAfterClassify(list) == list

\* Lines 184-198: the group list after computeVitalStats; filter, map and
\* reduce build new arrays and values.
ArgumentAfterStats(list) == list

\* Lines 266-276: the list after computeTimeSeriesChartData; map and filter
\* build new arrays.
ArgumentAfterChart(list) == list

\* Each of the three functions called twice on the same list, for every list
\* of at most MaxLen resources: output keeps the two results.
PurityUniverse == {O1, O2, O3, HMissA, HBad, TBadFirst, VStr, P1}

InitPurity ==
  /\ baseUrl = ParseURL(LocalServerUrl)
  /\ linkOrigin = ServerOrigin
  /\ InitDisplay
  /\ InitApp
  /\ input \in ListsUpTo(PurityUniverse, MaxLen)
  /\ output = NotRun
  /\ ran = "none"

\* The sort of one build is a function of the list it is given: the
\* functions a build may be on the lists in lists.
BuildsFor(lists) ==
  {f \in [lists -> UNION {ClassifyOutcomes(l) : l \in lists}] :
     \A l \in lists : f[l] \in ClassifyOutcomes(l)}

ClassifyTwice ==
  /\ UNCHANGED appVars
  /\ ran = "none"
  /\ \E sortOf \in BuildsFor({input, ArgumentAfterClassify(input)}) :
       output' = [first |-> sortOf[input],
                  second |-> sortOf[ArgumentAfterClassify(input)]]
  /\ input' = ArgumentAfterClassify(ArgumentAfterClassify(input))
  /\ ran' = "classify"
  /\ UNCHANGED <<baseUrl, linkOrigin, currentPatient, displayVars, selectedVital,
                 tasks, obsOrder, completed>>

StatsTwice ==
  /\ UNCHANGED appVars
  /\ ran = "none"
  /\ output' = [first |-> computeVitalStats([EmptyVitals EXCEPT !["heart_rate"] = input]),
                second |-> computeVitalStats(
                   [EmptyVitals EXCEPT !["heart_rate"] = ArgumentAfterStats(input)])]
  /\ input' = ArgumentAfterStats(ArgumentAfterStats(input))
  /\ ran' = "stats"
  /\ UNCHANGED <<baseUrl, linkOrigin, currentPatient, displayVars, selectedVital,
                 tasks, obsOrder, completed>>

ChartTwice ==
  /\ UNCHANGED appVars
  /\ ran = "none"
  /\ output' = [first |-> computeTimeSeriesChartData(input,
                   VITALS_COLOR_MAP["heart_rate"], VITAL_SIGN_LABELS["heart_rate"]),
                second |-> computeTimeSeriesChartData(ArgumentAfterChart(input),
                   VITALS_COLOR_MAP["heart_rate"], VITAL_SIGN_LABELS["heart_rate"])]
  /\ input' = ArgumentAfterChart(ArgumentAfterChart(input))
  /\ ran' = "chart"
  /\ UNCHANGED <<baseUrl, linkOrigin, currentPatient, displayVars, selectedVital,
                 tasks, obsOrder, completed>>

NextPurity == ClassifyTwice \/ StatsTwice \/ ChartTwice

SpecPurity == InitPurity /\ [][NextPurity]_vars


----------------------------------------------------------------------------
(* Properties of the fetch and of the refresh.                               *)

TaskIds == 1..Len(tasks)

AllDone == Len(tasks) > 0 /\ \A i \in TaskIds : tasks[i].pc = "done"

\* Some refresh began while an earlier one was still in flight.
Overlapped == \E i \in TaskIds : tasks[i].doneAtStart < i - 1

ObsOf(i) == tasks[i].rets[1].result

\* C1: a call that returned gives exactly the concatenation of its chain's
\* pages: pages in order, entries in array order, repeated entries kept, a
\* page without an entry array adding nothing; while it runs, the
\* accumulator is the concatenation of the pages received so far.
C1_ReturnsConcatenation ==
  \A i \in TaskIds :
    /\ \A j \in 1..Len(tasks[i].rets) :
         LET c == tasks[i].rets[j] IN
         c.status = "returned" =>
           /\ Terminates(c.type, tasks[i].rid)
           /\ c.result = Flatten(Chain(c.type, tasks[i].rid))
    /\ tasks[i].pc = "fetch" =>
         tasks[i].allResources =
           Flatten(SubSeq(Chain(tasks[i].type, tasks[i].rid), 1, tasks[i].nresp))

\* Patient a's two chains have been fetched whole: o1 is there twice, and
\* the Condition page without an entry array added nothing.
C1_Witness ==
  \E i \in TaskIds :
    /\ tasks[i].rid = "a"
    /\ Len(tasks[i].rets) = 2
    /\ tasks[i].rets[1].status = "returned"
    /\ tasks[i].rets[1].result = <<O1, O2, O1>>
    /\ tasks[i].rets[2].status = "returned"
    /\ tasks[i].rets[2].result = <<K1>>

\* C2: after a bundle with a "next" link, the URL requested next has the
\* scheme, host and port of the configured origin and the path and query of
\* the link.
C2_NextUrlHasConfiguredOrigin ==
  \A i \in TaskIds :
    (tasks[i].pc = "fetch" /\ tasks[i].nresp > 0 /\ tasks[i].lastResp.bundle.link # <<>>) =>
      LET u == ParseURL(tasks[i].nextUrl)
          l == ParseURL(tasks[i].lastResp.bundle.link[1])
      IN /\ u.scheme = baseUrl.scheme
         /\ u.host = baseUrl.host
         /\ EffectivePort(u) = EffectivePort(baseUrl)
         /\ u.path = l.path
         /\ u.query = l.query

\* C3: a change of the current patient leaves every refresh in flight as it
\* is, and a refresh assigns what it fetched whichever patient is current.
C3_NoCancelNoFence ==
  [][\A i \in TaskIds :
       InFlight(i) =>
         /\ i <= Len(tasks')
         /\ (currentPatient' # currentPatient => tasks'[i] = tasks[i])
         /\ (tasks[i].type = "Observation" /\ tasks'[i].type = "Condition"
               => observations' = tasks'[i].rets[1].result)
         /\ (tasks[i].pc = "fetch" /\ tasks'[i].pc = "tick"
               => /\ conditions' = tasks'[i].rets[2].result
                  /\ vitals' = extractAndSortVitalSignsObservations(observations).groups
                  /\ vitalStats' = computeVitalStats(vitals'))]_vars

\* B was selected while A's refresh was in flight, both refreshes are done,
\* B is current and what is displayed is A's.
C3_Witness ==
  /\ Len(tasks) = 2
  /\ tasks[1].rid = "a" /\ tasks[2].rid = "b"
  /\ tasks[1].pc = "done" /\ tasks[2].pc = "done"
  /\ completed = <<2, 1>>
  /\ currentPatient = PB
  /\ selectedVital = "heart_rate"
  /\ observations = <<O1, O2, O1>>
  /\ vitals = extractAndSortVitalSignsObservations(<<O1, O2, O1>>).groups
  /\ vitalStats = computeVitalStats(vitals)
  /\ timeSeriesChartData = ChartFor(<<O1, O1>>, "heart_rate")

\* C4 as stated: once overlapping refreshes have all completed successfully,
\* groups, statistics and chart are those computed from the observations
\* fetched by the refresh that completed last.
C4_LastCompleterWins ==
  (AllDone /\ Overlapped) =>
    LET g == extractAndSortVitalSignsObservations(ObsOf(completed[Len(completed)])).groups
    IN /\ vitals = g
       /\ vitalStats = computeVitalStats(g)
       /\ timeSeriesChartData = ChartFor(g[selectedVital], selectedVital)

\* C4 as amended: once overlapping refreshes have all completed successfully,
\* the displayed observations are those of the refresh whose Observation
\* fetch returned last, and groups, statistics and chart are those computed
\* from these displayed observations.
C4_LastObservationWriterWins ==
  (AllDone /\ Overlapped) =>
    LET g == extractAndSortVitalSignsObservations(observations).groups
    IN /\ observations = ObsOf(obsOrder[Len(obsOrder)])
       /\ vitals = g
       /\ vitalStats = computeVitalStats(g)
       /\ timeSeriesChartData = ChartFor(g[selectedVital], selectedVital)

\* Two overlapping refreshes are done; B's completed last, but A's
\* Observation fetch returned last and A's groups are displayed.
C4_Witness ==
  /\ AllDone /\ Overlapped
  /\ Len(tasks) = 2
  /\ tasks[1].rid = "a" /\ tasks[2].rid = "b"
  /\ completed = <<1, 2>>
  /\ obsOrder = <<2, 1>>
  /\ vitals = extractAndSortVitalSignsObservations(<<O1, O2, O1>>).groups
  /\ vitals # extractAndSortVitalSignsObservations(<<O3>>).groups

\* C5: a call whose request failed rejected with that error and returned no
\* resources, a call still running has had no failure, the step that fails
\* assigns nothing displayed, and a failed refresh issues no request again.
C5_FailureRejectsWithoutPartialResult ==
  /\ [](\A i \in TaskIds :
          /\ \A j \in 1..Len(tasks[i].rets) :
               LET c == tasks[i].rets[j] IN
               ~c.lastResp.ok =>
                 /\ c.status = "rejected"
                 /\ c.error = c.lastResp.error
                 /\ c.result = <<>>
                 /\ j = Len(tasks[i].rets)
                 /\ tasks[i].pc = "failed"
          /\ tasks[i].pc = "fetch" => tasks[i].lastResp.ok)
  /\ [][\A i \in TaskIds :
          /\ (tasks[i].pc = "fetch" /\ ~tasks'[i].lastResp.ok)
               => UNCHANGED displayVars
          /\ tasks[i].pc = "failed" => tasks'[i] = tasks[i]]_vars

\* The second page request of patient a's Observation fetch failed: the
\* first page's two resources were collected and are not displayed.
C5_Witness ==
  \E i \in TaskIds :
    /\ tasks[i].pc = "failed"
    /\ Len(tasks[i].rets) = 1
    /\ tasks[i].rets[1].status = "rejected"
    /\ tasks[i].rets[1].nresp = 2
    /\ tasks[i].allResources = <<O1, O2>>
    /\ observations = <<>>

\* C6: the step in which a refresh fails leaves the display either as it was
\* when that refresh began or cleared.
C6_FailureLeavesExplicitState ==
  [][\A i \in TaskIds :
       (tasks[i].pc = "fetch" /\ tasks'[i].pc = "failed") =>
         \/ Displayed' = tasks[i].before
         \/ Displayed' = Cleared]_vars

\* C8: a running call has exactly one request outstanding and has requested
\* no more pages than its chain has; a call that returned issued one request
\* per page of its chain (one request for a single page).
C8_OneRequestPerPage ==
  \A i \in TaskIds :
    /\ tasks[i].pc = "fetch" =>
         /\ tasks[i].nreq = tasks[i].nresp + 1
         /\ tasks[i].nreq <= Len(Chain(tasks[i].type, tasks[i].rid))
    /\ \A j \in 1..Len(tasks[i].rets) :
         LET c == tasks[i].rets[j] IN
         c.status = "returned" =>
           /\ c.nreq = Len(Chain(c.type, tasks[i].rid))
           /\ c.nresp = c.nreq

\* Patient a's two-page Observation chain took two requests and patient b's
\* single page took one.
C8_Witness ==
  \E i, j \in TaskIds :
    /\ tasks[i].rid = "a" /\ Len(tasks[i].rets) > 0
    /\ tasks[i].rets[1].status = "returned" /\ tasks[i].rets[1].nreq = 2
    /\ tasks[j].rid = "b" /\ Len(tasks[j].rets) > 0
    /\ tasks[j].rets[1].status = "returned" /\ tasks[j].rets[1].nreq = 1

\* C7: fetches of a chain that ends return, a fetch of a chain that never
\* ends neither returns nor raises, and it keeps requesting pages.
C7_ReturnsIffChainEnds ==
  /\ \A i \in 1..MaxRefresh :
       (i <= Len(tasks) /\ Terminates("Observation", tasks[i].rid))
         ~> (i <= Len(tasks) /\ Len(tasks[i].rets) >= 1
               /\ tasks[i].rets[1].status = "returned")
  /\ \A i \in 1..MaxRefresh :
       (i <= Len(tasks) /\ Len(tasks[i].rets) >= 1 /\ Terminates("Condition", tasks[i].rid))
         ~> (i <= Len(tasks) /\ Len(tasks[i].rets) >= 2
               /\ tasks[i].rets[2].status = "returned")
  /\ [](\A i \in TaskIds :
          /\ ~Terminates(tasks[i].type, tasks[i].rid) => tasks[i].pc = "fetch"
          /\ \A j \in 1..Len(tasks[i].rets) :
               Terminates(tasks[i].rets[j].type, tasks[i].rid))
  /\ \A i \in 1..MaxRefresh :
       <>(i <= Len(tasks) /\ ~Terminates(tasks[i].type, tasks[i].rid))
         => []<><<PageOk(i)>>_vars

\* Patient a's Observation fetch has returned while patient z's is still
\* running after MaxCount requests.
C7_Witness ==
  \E i, j \in TaskIds :
    /\ tasks[i].rid = "a" /\ Len(tasks[i].rets) >= 1
    /\ tasks[i].rets[1].status = "returned"
    /\ tasks[j].rid = "z" /\ tasks[j].pc = "fetch"
    /\ tasks[j].nreq = MaxCount

----------------------------------------------------------------------------
(* Properties of the classifier.                                             *)

RECURSIVE Count(_, _)
Count(list, r) ==
  IF list = <<>> THEN 0
  ELSE (IF Head(list) = r THEN 1 ELSE 0) + Count(Tail(list), r)

\* C9: the classifier returns a mapping over exactly the seven categories;
\* every resource of a category has that category's code, none is in two
\* categories, and one with no code or an unmapped code is in none.
C9_SevenCategoriesByCode ==
  ran = "classify" =>
    /\ ~output.threw
    /\ DOMAIN output.groups = VitalKeys
    /\ \A k \in VitalKeys : \A j \in 1..Len(output.groups[k]) :
         LET r == output.groups[k][j] IN
         /\ r.code \in DOMAIN VITAL_SIGN_CODES
         /\ VITAL_SIGN_CODES[r.code] = k
         /\ \A k2 \in VitalKeys \ {k} : Count(output.groups[k2], r) = 0
    /\ \A n \in 1..Len(input) :
         input[n].code \notin DOMAIN VITAL_SIGN_CODES =>
           \A k \in VitalKeys : Count(output.groups[k], input[n]) = 0

\* C10: a resource with one of the seven codes is in its category's list as
\* many times as it is in the input.
C10_MappedResourcesKept ==
  ran = "classify" =>
    \A n \in 1..Len(input) :
      input[n].code \in DOMAIN VITAL_SIGN_CODES =>
        Count(output.groups[VITAL_SIGN_CODES[input[n].code]], input[n])
          = Count(input, input[n])

\* C11: classification never raises: it completes for every list, a resource
\* whose code is missing or is not one of the seven table codes is in no
\* group, and every other resource of the list is classified.
C11_ClassificationNeverRaises ==
  ran = "classify" =>
    /\ ~output.threw
    /\ \A n \in 1..Len(input) :
         IF input[n].code \in DOMAIN VITAL_SIGN_CODES
           THEN \E j \in 1..Len(output.groups[VITAL_SIGN_CODES[input[n].code]]) :
                  output.groups[VITAL_SIGN_CODES[input[n].code]][j] = input[n]
           ELSE \A k \in VitalKeys : \A j \in 1..Len(output.groups[k]) :
                  output.groups[k][j] # input[n]

----------------------------------------------------------------------------
(* Properties of the order within a category.                                *)

\* b is later than a, a missing lastUpdated being the earliest instant.
LaterThan(b, a) ==
  /\ b.lastUpdated.kind = "ms"
  /\ \/ a.lastUpdated.kind = "absent"
     \/ a.lastUpdated.kind = "ms" /\ b.lastUpdated.ms > a.lastUpdated.ms

\* C12: in every category list the classifier returns, no resource comes
\* after one it is later than, a missing lastUpdated counting as the earliest
\* instant (so a resource without lastUpdated never precedes one that has a
\* lastUpdated, before the epoch or not).
C12_NonIncreasingMissingEarliest ==
  (ran = "classify" /\ ~output.threw) =>
    \A k \in VitalKeys :
      \A i, j \in 1..Len(output.groups[k]) :
        i < j => ~LaterThan(output.groups[k][j], output.groups[k][i])

EqualSortKeys(a, b) ==
  \/ a.lastUpdated.kind = "ms" /\ b.lastUpdated.kind = "ms"
       /\ a.lastUpdated.ms = b.lastUpdated.ms
  \/ a.lastUpdated.kind = "absent" /\ b.lastUpdated.kind = "absent"

\* C13: two resources of one category with equal lastUpdated, or both
\* without one, are in the category's list in the order they had in the
\* input (each of the two occurring once in the input).
C13_EqualKeysKeepInputOrder ==
  (ran = "classify" /\ ~output.threw) =>
    \A m, n \in 1..Len(input) :
      (/\ m < n
       /\ input[m].code \in DOMAIN VITAL_SIGN_CODES
       /\ input[m].code = input[n].code
       /\ EqualSortKeys(input[m], input[n])
       /\ Count(input, input[m]) = 1 /\ Count(input, input[n]) = 1) =>
        LET g == output.groups[VITAL_SIGN_CODES[input[m].code]] IN
        \A a, b \in 1..Len(g) : (g[a] = input[m] /\ g[b] = input[n]) => a < b

----------------------------------------------------------------------------
(* Properties of the statistics.                                             *)

\* The numbers among the values of list, as integers, in list order.
RECURSIVE IntegerValues(_)
IntegerValues(list) ==
  IF list = <<>> THEN <<>>
  ELSE (IF Head(list).value.kind = "num" THEN <<Head(list).value.n>> ELSE <<>>)
         \o IntegerValues(Tail(list))

RECURSIVE SumSeq(_)
SumSeq(s) == IF s = <<>> THEN 0 ELSE Head(s) + SumSeq(Tail(s))

\* C14: a category's statistic is {null, null} exactly when fewer than two
\* of its resources have a value that is a number; an empty list and a
\* single numeric sample give {null, null}.
C14_NullIffFewerThanTwoNumbers ==
  ran = "stats" =>
    /\ output["heart_rate"].null <=> Len(IntegerValues(input)) < 2
    /\ \A k \in VitalKeys \ {"heart_rate"} : output[k] = NullStat
    /\ output["heart_rate"].null => output["heart_rate"] = NullStat

\* Three resources of which one has a number: {null, null}.
C14_Witness ==
  /\ ran = "stats"
  /\ input = <<VStr, V70, VNone>>
  /\ output["heart_rate"] = NullStat

\* The claim's formulas, evaluated from the left over the numbers vs.
RECURSIVE LeftSum(_, _)
LeftSum(vs, n) == IF n = 0 THEN Zero ELSE FAdd(LeftSum(vs, n - 1), ToNumber(vs[n]))

RECURSIVE LeftSumSq(_, _, _)
LeftSumSq(vs, mean, n) ==
  IF n = 0 THEN Zero
  ELSE FAdd(LeftSumSq(vs, mean, n - 1),
            FMul(FSub(ToNumber(vs[n]), mean), FSub(ToNumber(vs[n]), mean)))

\* C15: with n >= 2 numbers, mean is their sum divided by n and stddev is
\* the square root of the summed squared deviations from the mean divided
\* by n - 1; the mean is the exact mean of the (non-negative) numbers up to
\* the rounding of n operations; [70, 72, 74] gives mean 72 and stddev 2.
C15_MeanAndSampleStddev ==
  ran = "stats" =>
    LET vs == IntegerValues(input)
        n == Len(vs)
        s == output["heart_rate"]
    IN /\ n >= 2 =>
            /\ ~s.null
            /\ s.mean = FDivInt(LeftSum(vs, n), n)
            /\ s.stddev = FSqrt(FDivInt(LeftSumSq(vs, s.mean, n), n - 1))
            /\ Abs(s.mean.num * n - SumSeq(vs) * s.mean.den) * Pow2(Precision)
                  <= 2 * n * SumSeq(vs) * s.mean.den
       /\ vs = <<70, 72, 74>> =>
            s = [null |-> FALSE, mean |-> [num |-> 72, den |-> 1],
                 stddev |-> [num |-> 2, den |-> 1]]

\* The statistics of 70, 72, 74 (and a resource without value) are 72 and 2.
C15_Witness ==
  /\ ran = "stats"
  /\ input = <<V70, V72, V74>>
  /\ output["heart_rate"] =
       [null |-> FALSE, mean |-> [num |-> 72, den |-> 1],
        stddev |-> [num |-> 2, den |-> 1]]

\* C16 as stated: every permutation of the list gives the same statistic.
C16_SameForEveryPermutation ==
  ran = "stats" =>
    \A p \in PermutationsOf(input) : StatOf(p) = output["heart_rate"]

\* C16 as amended: every permutation of the list gives the same null or
\* non-null outcome, and a mean that is the exact mean of the
\* (non-negative) numbers up to the rounding of n operations.
C16_SameUpToRounding ==
  ran = "stats" =>
    \A vs \in {IntegerValues(input)} :
    \A total \in {SumSeq(vs)} :
    \A p \in PermutationsOf(input) :
    \A s \in {StatOf(p)} :
      /\ s.null = output["heart_rate"].null
      /\ ~s.null =>
           Abs(s.mean.num * Len(vs) - total * s.mean.den) * Pow2(Precision)
             <= 2 * Len(vs) * total * s.mean.den

\* Summed as big + 1 + 1 the ones are rounded away; summed as 1 + 1 + big
\* they are not, and the mean differs.
C16_Witness ==
  /\ ran = "stats"
  /\ input = <<VBig, VOne, VOne>>
  /\ ~output["heart_rate"].null
  /\ StatOf(<<VOne, VOne, VBig>>).mean # output["heart_rate"].mean

----------------------------------------------------------------------------
(* Properties of the chart series.                                           *)

\* The first of lastUpdated, effectiveDateTime, issued that is parseable,
\* Absent when none is.
FirstParseable(r) ==
  IF r.lastUpdated.kind = "ms" THEN r.lastUpdated
  ELSE IF r.effectiveDateTime.kind = "ms" THEN r.effectiveDateTime
  ELSE IF r.issued.kind = "ms" THEN r.issued
  ELSE Absent

SeriesData == output.datasets[1].data

\* C17: the series of a single resource with a numeric value and a
\* parseable timestamp is one point at the first of lastUpdated,
\* effectiveDateTime, issued that is present and parseable; an unparseable
\* earlier candidate is skipped in favour of the next.
C17_FirstParseableTimestamp ==
  (ran = "chart" /\ Len(input) = 1 /\ input[1].value.kind = "num"
     /\ FirstParseable(input[1]).kind = "ms") =>
    /\ Len(SeriesData) = 1
    /\ SeriesData[1].x = FirstParseable(input[1]).ms

\* The points a list gives when a resource has a point exactly if its value
\* is a number and one of its timestamps is parseable.
RECURSIVE ClaimedPoints(_)
ClaimedPoints(list) ==
  IF list = <<>> THEN <<>>
  ELSE LET r == Head(list) IN
       (IF r.value.kind = "num" /\ FirstParseable(r).kind = "ms"
          THEN <<[x |-> FirstParseable(r).ms, y |-> r.value]>> ELSE <<>>)
         \o ClaimedPoints(Tail(list))

\* C18: a resource has a point if and only if its value is a number (zero
\* included) and at least one of its three timestamps is parseable.
C18_PointIffNumberAndParseable ==
  ran = "chart" => SeriesData = ClaimedPoints(input)

\* Whether the code keeps resource r: line 274.
Survives(r) == r.value.kind # "none" /\ DateStr(r).kind = "ms"

SurvivingIndexes == {i \in 1..Len(input) : Survives(input[i])}

\* The k-th surviving index, in increasing order.
NthSurviving(k) ==
  CHOOSE i \in SurvivingIndexes :
    Cardinality({j \in SurvivingIndexes : j < i}) = k - 1

\* C19: the points are in the order of their resources in the input list,
\* one (timestamp, value) pair for each surviving resource, whatever the
\* timestamps are.
C19_PointsInInputOrder ==
  ran = "chart" =>
    /\ Len(SeriesData) = Cardinality(SurvivingIndexes)
    /\ \A k \in 1..Len(SeriesData) :
         LET r == input[NthSurviving(k)] IN
         SeriesData[k] = [x |-> DateStr(r).ms, y |-> r.value]

\* A later timestamp first, a dropped resource in between, an earlier
\* timestamp last: the points stay in that order.
C19_Witness ==
  /\ ran = "chart"
  /\ input = <<T5, TNoValue, TIssued>>
  /\ SeriesData = <<[x |-> 5, y |-> Num(72)], [x |-> 1, y |-> Num(76)]>>

----------------------------------------------------------------------------
(* Properties of the display after a patient change.                         *)

\* What the display holds when it is computed in full from patient p:
\* nothing for no patient or a patient without a resource id.
RecomputedFor(p) ==
  IF p.null \/ p.resource_id = ""
    THEN [vitals |-> EmptyVitals, vitalStats |-> InitialVitalStats, chart |-> EmptyChart]
    ELSE LET groups == extractAndSortVitalSignsObservations(
                         Flatten(Chain("Observation", p.resource_id))).groups
         IN [vitals |-> groups, vitalStats |-> computeVitalStats(groups),
             chart |-> ChartFor(groups[selectedVital], selectedVital)]

\* C20: once no refresh is in flight, the displayed vital groups, statistics
\* and chart series are those computed from the current patient's
\* resources, and are empty when the patient is null or has no resource id.
C20_DisplayedIsCurrentPatients ==
  (\A i \in 1..Len(tasks) : ~InFlight(i)) =>
    /\ vitals = RecomputedFor(currentPatient).vitals
    /\ vitalStats = RecomputedFor(currentPatient).vitalStats
    /\ timeSeriesChartData = RecomputedFor(currentPatient).chart

----------------------------------------------------------------------------
(* Purity of the three functions.                                            *)

----------------------------------------------------------------------------
(* Properties of the display under overlapping refreshes.                    *)

Failed(i) == tasks[i].pc = "failed"

\* What a refresh for resource id rid displays when it runs alone.
FetchedFor(rid) ==
  [observations |-> Flatten(Chain("Observation", rid)),
   conditions |-> Flatten(Chain("Condition", rid)),
   vitals |-> extractAndSortVitalSignsObservations(
                Flatten(Chain("Observation", rid))).groups]

\* C23: whenever no refresh is in flight and none has failed, the displayed
\* observations, conditions and vital groups are those fetched for one and
\* the same patient.
C23_DisplayOfOnePatient ==
  (/\ Len(tasks) > 0
   /\ \A i \in 1..Len(tasks) : ~InFlight(i) /\ ~Failed(i)) =>
    \E i \in 1..Len(tasks) :
      /\ observations = FetchedFor(tasks[i].rid).observations
      /\ conditions = FetchedFor(tasks[i].rid).conditions
      /\ vitals = FetchedFor(tasks[i].rid).vitals

\* C24: whenever no refresh is between its write of the vital groups and
\* its call of updateChartData, the chart data is
\* computeTimeSeriesChartData of the selected vital's group when the group
\* is non-empty and the empty dataset list when it is empty.
C24_ChartIsSelectedVitalsSeries ==
  ~TickPending =>
    timeSeriesChartData =
      IF Len(vitals[selectedVital]) > 0
        THEN computeTimeSeriesChartData(vitals[selectedVital],
               VITALS_COLOR_MAP[selectedVital], VITAL_SIGN_LABELS[selectedVital])
        ELSE [datasets |-> <<>>]

\* Patient a's refresh is done, temperature has been selected and then
\* heart rate again: the chart is the heart-rate series of a.
C24_Witness ==
  /\ Len(tasks) = 1 /\ tasks[1].pc = "done" /\ tasks[1].rid = "a"
  /\ selectedVital = "heart_rate"
  /\ Len(vitals["heart_rate"]) > 0
  /\ Len(vitals["temperature"]) > 0
  /\ timeSeriesChartData =
       computeTimeSeriesChartData(vitals["heart_rate"],
         VITALS_COLOR_MAP["heart_rate"], VITAL_SIGN_LABELS["heart_rate"])

----------------------------------------------------------------------------
(* Properties of the imaging-studies panel and of the patient store.         *)

\* C22: the panel shows a DICOM patient's studies only when a FHIR patient
\* is selected and the DICOM store holds a patient whose PatientID is
\* exactly, case-sensitively, the selected patient's id; it is that
\* patient's studies that are shown.
C22_StudiesOnlyForExactPatientId ==
  Panel.shows = "studies" =>
    /\ ~selectedPatient.null
    /\ \E n \in 1..Len(patientInfo) : patientInfo[n].PatientID = selectedPatient.id
    /\ Panel.key = selectedPatient.id

\* The store holds patients "a" and "A" and the FHIR patient "A" is
\* selected: the studies of "A" are shown.
C22_Witness ==
  /\ patientInfo = <<DLowerA, DA>>
  /\ selectedPatient = PA
  /\ Panel = [shows |-> "studies", key |-> "A"]

\* C28: a step that selects a patient clears the primary selection if and
\* only if the patient's id differs from the id of the patient selected
\* before, no patient before counting as a different id; with the same id
\* the primary selection stays as it is.
C28_ClearsPrimaryIffIdDiffers ==
  [][(selectedPatient' # selectedPatient /\ ~selectedPatient'.null) =>
       /\ selectedPatient' \in StorePatients
       /\ IF selectedPatient.null \/ selectedPatient.id # selectedPatient'.id
            THEN primarySelection' = "none"
            ELSE primarySelection' = primarySelection]_vars

\* A patient is selected and a volume is the primary selection: selecting
\* another record of the same id from here keeps the volume, selecting
\* another id clears it.
C28_Witness ==
  /\ selectedPatient = PA2
  /\ primarySelection = "vol1"

----------------------------------------------------------------------------
(* Properties of the loading flag of PatientDetails.                         *)

\* C30: isFetching is true whenever a fetchPatientMeta request for the
\* selected patient is in flight, whatever requests of earlier patients
\* settle meanwhile, and it is false once no request is pending.
C30_FetchingWhileCurrentRequestPending ==
  /\ (\E n \in 1..Len(metaRequests) : metaRequests[n] = selectedPatient.id)
       => isFetching
  /\ metaRequests = <<>> => ~isFetching

----------------------------------------------------------------------------
(* Properties of the analysis stores.                                        *)

\* C29: in each analysis store analysisIdList holds every id that was given
\* to addAnalysisId or setAnalysisInput exactly once, and nothing else.
C29_EveryIdListedOnce ==
  /\ \A id \in idsPassed :
       Cardinality({n \in 1..Len(analysisIdList) : analysisIdList[n] = id}) = 1
  /\ \A n \in 1..Len(analysisIdList) : analysisIdList[n] \in idsPassed

----------------------------------------------------------------------------
(* Properties of the multi-model chat.                                       *)

AllMessages ==
  UNION {{chatHistories[k][n] : n \in 1..Len(chatHistories[k])} : k \in DOMAIN chatHistories}

\* C25: no history holds a message of a conversation with a patient other
\* than the selected one, the reply or error message of a request that was
\* in flight when the patient changed included.
C25_NoMessageOfPreviousPatient ==
  \A msg \in AllMessages : msg.forPatient = selectedPatient.id

\* C26: the bot message of a request is in the history of the model to
\* whose history its user message was appended, whatever model is selected
\* when the call returns.
C26_BotMessageInSameHistory ==
  \A k \in DOMAIN chatHistories :
    \A n \in 1..Len(chatHistories[k]) : chatHistories[k][n].forModel = k

----------------------------------------------------------------------------
(* Property of the single-model chat.                                        *)

\* C27: a bot reply is the analysis output stored under the patient id that
\* was passed to its call (or the error text), whichever patient is
\* selected when the call returns.
C27_ReplyOfThePatientSentFor ==
  \A n \in 1..Len(messages) :
    messages[n].sender = "bot" =>
      messages[n].text \in {SorryMessage, ReplyFor(messages[n].forPatient)}

====
